---- MODULE Spec2Model ----
(***************************************************************************)
(* A model of play-bin: the hot-reloaded configuration store and the       *)
(* permission tokens (internal/config), the container lifecycle manager    *)
(* (internal/container) with its rsync generation backups, the virtual     *)
(* file system behind SFTP and WebDAV (internal/vfs), the HTTP and bot     *)
(* front ends of the manager, and the attach streams to a container.       *)
(*                                                                         *)
(* SpecConfig : goroutines calling LoadedConfig.Get / Reload while the     *)
(*              file ./config.json is edited.                              *)
(* Spec       : Manager.Start against the Docker engine.                   *)
(* SpecBackup : two handler goroutines whose Manager.Backup invocations    *)
(*              overlap in time.                                           *)
(* SpecSeq    : Manager.Backup and Manager.Restore invocations of one      *)
(*              handler goroutine, one after the other.                    *)
(* SpecMatch  : matchRecursive on pairs of permission tokens.              *)
(* SpecPerm   : UserConfig.HasPermission on permission maps.               *)
(* SpecFiles  : one SFTP or WebDAV request against the virtual file system.*)
(* SpecFrontEnd : one lifecycle request through the HTTP API or the bot.   *)
(* SpecAttach : terminals in attach mode and SendCommand callers.          *)
(* SpecMapPath : VFS.MapPath on path strings.                              *)
(* SpecEngineOps : Manager.Stop, Manager.Kill and Manager.Remove on one    *)
(*              container.                                                 *)
(* SpecList   : Manager.ListBackupGenerations on destination bases.        *)
(* SpecCancel : Manager.Backup and Manager.Restore of one handler whose    *)
(*              request context may be cancelled.                          *)
(* SpecRace   : Manager.Backup / Restore of one handler while another      *)
(*              starts the container.                                      *)
(* SpecBots   : the runBotManager goroutine calling SyncBots, beside       *)
(*              another reader of the configuration (liveness).            *)
(* SpecForwarders : SyncLogForwarders ticks and the tailContainerLogs      *)
(*              goroutines they start and cancel.                          *)
(***************************************************************************)
EXTENDS Integers, Sequences, FiniteSets, TLC

(***************************************************************************)
(* Bounds                                                                  *)
(***************************************************************************)
\* number of times ./config.json is rewritten
MaxVersion == 2
\* the wall clock, in whole seconds
MaxClock == 2
\* Backup / Restore invocations in one behaviour
MaxRuns == 3
\* containers the engine creates
MaxCreates == 2
\* dot-separated segments of a permission token
MaxSegs == 3
\* tokens a user holds under one key of the permission map
MaxGrants == 2
\* tailContainerLogs goroutines started
MaxTails == 2

\* goroutines that read the configuration
Readers == {"g1", "g2"}
\* goroutines that run lifecycle handlers
Handlers == {"h1", "h2"}

None == "none"

VARIABLES
    \* ---- configuration store
    file,        \* ./config.json: [exists, valid, ver, mtime]
    Config,      \* LoadedConfig.Config: [Users, Servers], the version each field holds
    LastLoaded,  \* LoadedConfig.LastLoaded
    mu,          \* LoadedConfig.mu: [writer, readers]
    parsed,      \* versions json.Decode has accepted so far
    gr,          \* goroutine -> [pc, op, inGet, newCfg, got, failed]
    \* ---- engine, disk and lifecycle handlers
    server,      \* the entry cfg.Servers[id]: [ok, image, backup]
    cstate,      \* the container named id: "absent", "created" (not running), "running"
    cid,         \* identity of the container object (count of creations)
    lastStart,   \* what the last Manager.Start did
    now,         \* the clock second
    srcData,     \* source path -> content
    gens,        \* destBase -> generation -> content of destBase/<generation>
    latest,      \* destBase -> target of the symlink destBase/latest
    inv,         \* handler goroutine -> its invocation record
    \* ---- permissions and the front ends
    match,       \* a call of matchRecursive: [userPerm, required, pc, result]
    check,       \* a call of HasPermission: [perms, server, required, pc, result]
    access,      \* the configuration the front ends read: [Users, Servers]
    disk,        \* server -> names present under the host directory of its mount
    req,         \* a front-end request and what its handler did
    attach,      \* docker.AttachLocks and the attach streams that are open
    run,         \* an invocation of Stop, Kill, Remove or ListBackupGenerations
    \* ---- Discord integration
    bots,        \* BotManager: [ChannelUpdatedAt, ChannelToServer, Sessions,
                 \*              ActiveForwarders], and whether Discord answers
    tails        \* the tailContainerLogs goroutines started so far

cfgVars == <<file, Config, LastLoaded, mu, parsed, gr>>
lifeVars == <<server, cstate, cid, lastStart, now, srcData, gens, latest, inv>>
accVars == <<match, check, access, disk, req, attach, run, bots, tails>>
vars == <<file, Config, LastLoaded, mu, parsed, gr,
          server, cstate, cid, lastStart, now, srcData, gens, latest, inv,
          match, check, access, disk, req, attach, run, bots, tails>>

(***************************************************************************)
(* internal/config: LoadedConfig                                           *)
(***************************************************************************)
\* the zero Config of &config.LoadedConfig{}: nil maps
ZeroConfig == 0
\* what json.Decode leaves in newCfg when it returns an error
Garbage == 0 - 1

CfgValues == (0 .. MaxVersion) \cup {Garbage}

\* sync.RWMutex: RLock waits while a writer holds the lock
CanRLockNoMutex(p) == TRUE
CanRLock(p) == mu.writer = None

\* sync.RWMutex: Lock waits for the writer and for every reader
CanLock(p) == mu.writer = None /\ mu.readers = {}

\* Decode's error check: `if err := ...Decode(&newCfg); err != nil { return }`
DecodeIgnoringError(f) == TRUE
DecodeAccepted(f) == f.valid

\* where Reload returns to
AfterReload(g) == IF g.inGet THEN "get_relock" ELSE "done"

\* Get(): c.mu.RLock()
GetBegin(p) ==
    /\ gr[p].pc \in {"idle", "done"}
    /\ CanRLock(p)
    /\ mu' = [mu EXCEPT !.readers = @ \cup {p}]
    /\ gr' = [gr EXCEPT ![p] = [@ EXCEPT !.pc = "get_stat", !.op = "get",
                                         !.inGet = TRUE, !.failed = FALSE]]
    /\ UNCHANGED <<file, Config, LastLoaded, parsed>>
    /\ UNCHANGED lifeVars
    /\ UNCHANGED accVars

\* Get(): os.Stat, the ModTime().After(c.LastLoaded) test and the RUnlock before Reload
GetStat(p) ==
    /\ gr[p].pc = "get_stat"
    /\ IF file.exists /\ file.mtime > LastLoaded
       THEN /\ mu' = [mu EXCEPT !.readers = @ \ {p}]
            /\ gr' = [gr EXCEPT ![p].pc = "rl_lock"]
       ELSE /\ gr' = [gr EXCEPT ![p].pc = "get_users"]
            /\ UNCHANGED mu
    /\ UNCHANGED <<file, Config, LastLoaded, parsed>>
    /\ UNCHANGED lifeVars
    /\ UNCHANGED accVars

\* Get(): c.mu.RLock() after the Reload
GetRelock(p) ==
    /\ gr[p].pc = "get_relock"
    /\ CanRLock(p)
    /\ mu' = [mu EXCEPT !.readers = @ \cup {p}]
    /\ gr' = [gr EXCEPT ![p].pc = "get_users"]
    /\ UNCHANGED <<file, Config, LastLoaded, parsed>>
    /\ UNCHANGED lifeVars
    /\ UNCHANGED accVars

\* Get(): `return c.Config` copies the struct field by field: Users ...
GetCopyUsers(p) ==
    /\ gr[p].pc = "get_users"
    /\ gr' = [gr EXCEPT ![p] = [@ EXCEPT !.pc = "get_servers",
                                         !.got = [@ EXCEPT !.Users = Config.Users]]]
    /\ UNCHANGED <<file, Config, LastLoaded, mu, parsed>>
    /\ UNCHANGED lifeVars
    /\ UNCHANGED accVars

\* ... then Servers, and the deferred RUnlock
GetCopyServers(p) ==
    /\ gr[p].pc = "get_servers"
    /\ gr' = [gr EXCEPT ![p] = [@ EXCEPT !.pc = "done",
                                         !.got = [@ EXCEPT !.Servers = Config.Servers]]]
    /\ mu' = [mu EXCEPT !.readers = @ \ {p}]
    /\ UNCHANGED <<file, Config, LastLoaded, parsed>>
    /\ UNCHANGED lifeVars
    /\ UNCHANGED accVars

\* a direct call of Reload() (main's start-up load)
ReloadBegin(p) ==
    /\ gr[p].pc \in {"idle", "done"}
    /\ gr' = [gr EXCEPT ![p] = [@ EXCEPT !.pc = "rl_lock", !.op = "reload",
                                         !.inGet = FALSE, !.failed = FALSE]]
    /\ UNCHANGED <<file, Config, LastLoaded, mu, parsed>>
    /\ UNCHANGED lifeVars
    /\ UNCHANGED accVars

\* Reload(): c.mu.Lock()
ReloadLock(p) ==
    /\ gr[p].pc = "rl_lock"
    /\ CanLock(p)
    /\ mu' = [mu EXCEPT !.writer = p]
    /\ gr' = [gr EXCEPT ![p].pc = "rl_open"]
    /\ UNCHANGED <<file, Config, LastLoaded, parsed>>
    /\ UNCHANGED lifeVars
    /\ UNCHANGED accVars

\* Reload(): os.Open; on an error log, unlock and return
ReloadOpen(p) ==
    /\ gr[p].pc = "rl_open"
    /\ IF file.exists
       THEN /\ gr' = [gr EXCEPT ![p].pc = "rl_decode"]
            /\ UNCHANGED mu
       ELSE /\ gr' = [gr EXCEPT ![p] = [@ EXCEPT !.pc = AfterReload(gr[p]),
                                                 !.failed = TRUE]]
            /\ mu' = [mu EXCEPT !.writer = None]
    /\ UNCHANGED <<file, Config, LastLoaded, parsed>>
    /\ UNCHANGED lifeVars
    /\ UNCHANGED accVars

\* Reload(): json.NewDecoder(f).Decode(&newCfg); on an error log, unlock and return
ReloadDecode(p) ==
    /\ gr[p].pc = "rl_decode"
    /\ LET decoded == IF file.valid THEN file.ver ELSE Garbage
       IN  IF DecodeAccepted(file)
           THEN /\ gr' = [gr EXCEPT ![p] = [@ EXCEPT !.pc = "rl_users",
                                                     !.newCfg = decoded]]
                /\ parsed' = IF file.valid THEN parsed \cup {file.ver} ELSE parsed
                /\ UNCHANGED mu
           ELSE /\ gr' = [gr EXCEPT ![p] = [@ EXCEPT !.pc = AfterReload(gr[p]),
                                                     !.newCfg = decoded,
                                                     !.failed = TRUE]]
                /\ mu' = [mu EXCEPT !.writer = None]
                /\ UNCHANGED parsed
    /\ UNCHANGED <<file, Config, LastLoaded>>
    /\ UNCHANGED lifeVars
    /\ UNCHANGED accVars

\* Reload(): `c.Config = newCfg` writes the struct field by field: Users ...
ReloadSetUsers(p) ==
    /\ gr[p].pc = "rl_users"
    /\ Config' = [Config EXCEPT !.Users = gr[p].newCfg]
    /\ gr' = [gr EXCEPT ![p].pc = "rl_servers"]
    /\ UNCHANGED <<file, LastLoaded, mu, parsed>>
    /\ UNCHANGED lifeVars
    /\ UNCHANGED accVars

\* ... then Servers
ReloadSetServers(p) ==
    /\ gr[p].pc = "rl_servers"
    /\ Config' = [Config EXCEPT !.Servers = gr[p].newCfg]
    /\ gr' = [gr EXCEPT ![p].pc = "rl_stat"]
    /\ UNCHANGED <<file, LastLoaded, mu, parsed>>
    /\ UNCHANGED lifeVars
    /\ UNCHANGED accVars

\* Reload(): f.Stat(), c.LastLoaded = info.ModTime(), and the deferred Unlock
ReloadStat(p) ==
    /\ gr[p].pc = "rl_stat"
    /\ \E statOk \in BOOLEAN :
          LastLoaded' = IF statOk THEN file.mtime ELSE LastLoaded
    /\ mu' = [mu EXCEPT !.writer = None]
    /\ gr' = [gr EXCEPT ![p].pc = AfterReload(gr[p])]
    /\ UNCHANGED <<file, Config, parsed>>
    /\ UNCHANGED lifeVars
    /\ UNCHANGED accVars

\* an operator saves a new ./config.json, well-formed or not
FileWrite ==
    /\ file.ver < MaxVersion
    /\ \E valid \in BOOLEAN :
          file' = [exists |-> TRUE, valid |-> valid,
                   ver |-> file.ver + 1, mtime |-> file.mtime + 1]
    /\ UNCHANGED <<Config, LastLoaded, mu, parsed, gr>>
    /\ UNCHANGED lifeVars
    /\ UNCHANGED accVars

\* ./config.json is removed (an open descriptor keeps reading it)
FileDelete ==
    /\ file.exists
    /\ file' = [file EXCEPT !.exists = FALSE]
    /\ UNCHANGED <<Config, LastLoaded, mu, parsed, gr>>
    /\ UNCHANGED lifeVars
    /\ UNCHANGED accVars

(***************************************************************************)
(* The configured server, the engine and the disk                          *)
(***************************************************************************)
\* a directory that does not exist
NoDir == 0 - 1
\* a directory an rsync is writing, or has left half written
Partial == 0
\* what a source directory can hold: two states of the files that differ
Contents == {1, 2}
\* no symlink destBase/latest
NoLatest == 0

Timestamps == 1 .. MaxClock
\* the `generation` query parameter: 0 is the empty string
GenArgs == 0 .. MaxClock

Src == "/data"
DestBases == {"/bk1", "/bk2"}

\* CmdConfig{Type, Arg}; Arg is the string cut at its path and ":" tokens
Cmd(type, arg) == [type |-> type, arg |-> arg]

BackupReadme == <<Cmd("attach", <<"save-all">>), Cmd("sleep", <<"5s">>),
                  Cmd("backup", <<Src, ":", "/bk1">>)>>
BackupTwoDest == <<Cmd("backup", <<Src, ":", "/bk1">>),
                   Cmd("backup", <<Src, ":", "/bk2">>)>>
BackupNoColon == <<Cmd("backup", <<Src>>), Cmd("backup", <<Src, ":", "/bk1">>)>>

\* the values cfg.Servers[id] takes: absent, unmanaged (no image), managed
Servers ==
    {[ok |-> FALSE, image |-> FALSE, backup |-> <<>>],
     [ok |-> TRUE, image |-> FALSE, backup |-> BackupReadme],
     [ok |-> TRUE, image |-> TRUE, backup |-> BackupReadme],
     [ok |-> TRUE, image |-> TRUE, backup |-> BackupTwoDest],
     [ok |-> TRUE, image |-> TRUE, backup |-> BackupNoColon]}

\* index of the first ":" of arg, 0 when there is none
RECURSIVE FirstColon(_, _)
FirstColon(arg, i) ==
    IF i > Len(arg) THEN 0
    ELSE IF arg[i] = ":" THEN i
    ELSE FirstColon(arg, i + 1)

\* strings.SplitN(arg, ":", 2)
SplitN(arg) ==
    LET c == FirstColon(arg, 1)
    IN  IF c = 0 THEN <<arg>>
        ELSE <<SubSeq(arg, 1, c - 1), SubSeq(arg, c + 1, Len(arg))>>

\* `if len(parts) != 2 { continue }`
WellFormed(cmd) == Len(SplitN(cmd.arg)) = 2
\* parts[1] as a path: the arguments modelled hold one token there
DestOf(cmd) == SplitN(cmd.arg)[2][1]

(***************************************************************************)
(* internal/container: Manager.Start                                       *)
(***************************************************************************)
NoStart == [ran |-> FALSE, managed |-> FALSE, pre |-> "absent", preId |-> 0,
            calls |-> <<>>, err |-> None, post |-> "absent", postId |-> 0]

\* what ContainerInspect can answer for a container in state st
InspectOutcomes(st) ==
    IF st = "absent" THEN {"notfound", "error"} ELSE {"ok", "error"}

\* `if !inspect.State.Running { ContainerRemove }`
RemovesOldAlways(running) == TRUE
RemovesOld(running) == ~running

\* `if _, err := ContainerCreate(...); err != nil { return err }`
CreateNeverAborts(failed) == FALSE
CreateAborts(failed) == failed

\* `if !ok || server.Image == "" { return nil }`
NotStartedOnlyUnknown(ok, image) == ~ok
NotStarted(ok, image) == ~ok \/ ~image

\* Manager.Start as the engine calls it issues, their outcomes given
StartRun(pre, preId, insp, rmOk, crOk, stOk) ==
    LET base == [ran |-> TRUE, managed |-> TRUE, pre |-> pre, preId |-> preId,
                 calls |-> <<"inspect">>, err |-> None,
                 post |-> pre, postId |-> preId]
        \* the engine refuses to remove a running container without force
        doRemove == insp = "ok" /\ RemovesOld(pre = "running")
        afterRm == IF doRemove /\ rmOk /\ pre # "running" THEN "absent" ELSE pre
        calls1 == IF doRemove THEN <<"inspect", "remove">> ELSE <<"inspect">>
        \* the engine refuses to create under a name that is in use
        created == afterRm = "absent" /\ crOk
        afterCr == IF created THEN "created" ELSE afterRm
        idCr == IF created THEN preId + 1 ELSE preId
        calls2 == Append(calls1, "create")
        started == afterCr # "absent" /\ (afterCr = "running" \/ stOk)
        afterSt == IF started THEN "running" ELSE afterCr
    IN  IF NotStarted(server.ok, server.image)
        THEN [base EXCEPT !.managed = FALSE, !.calls = <<>>]
        ELSE IF insp = "error"
        THEN [base EXCEPT !.err = "inspect"]
        ELSE IF CreateAborts(~created)
        THEN [base EXCEPT !.calls = calls2, !.err = "create",
                          !.post = afterCr, !.postId = idCr]
        ELSE [base EXCEPT !.calls = Append(calls2, "start"),
                          !.err = IF started THEN None ELSE "start",
                          !.post = afterSt, !.postId = idCr]

Start ==
    /\ cid < MaxCreates
    /\ \E insp \in InspectOutcomes(cstate), rmOk, crOk, stOk \in BOOLEAN :
          LET r == StartRun(cstate, cid, insp, rmOk, crOk, stOk)
          IN  /\ lastStart' = r
              /\ cstate' = r.post
              /\ cid' = r.postId
    /\ UNCHANGED <<server, now, srcData, gens, latest, inv>>
    /\ UNCHANGED cfgVars
    /\ UNCHANGED accVars

\* the container's process exits
ContainerExit ==
    /\ cstate = "running"
    /\ cstate' = "created"
    /\ UNCHANGED <<server, cid, lastStart, now, srcData, gens, latest, inv>>
    /\ UNCHANGED cfgVars
    /\ UNCHANGED accVars

\* a stopped container is started again (docker start, restart policy)
ContainerRun ==
    /\ cstate = "created"
    /\ cstate' = "running"
    /\ UNCHANGED <<server, cid, lastStart, now, srcData, gens, latest, inv>>
    /\ UNCHANGED cfgVars
    /\ UNCHANGED accVars

\* a container of that name is created outside the manager (docker create)
ContainerMade ==
    /\ cstate = "absent"
    /\ cid < MaxCreates
    /\ cstate' = "created"
    /\ cid' = cid + 1
    /\ UNCHANGED <<server, lastStart, now, srcData, gens, latest, inv>>
    /\ UNCHANGED cfgVars
    /\ UNCHANGED accVars

\* a stopped container is removed outside the manager (docker rm)
ContainerGone ==
    /\ cstate = "created"
    /\ cstate' = "absent"
    /\ UNCHANGED <<server, cid, lastStart, now, srcData, gens, latest, inv>>
    /\ UNCHANGED cfgVars
    /\ UNCHANGED accVars

(***************************************************************************)
(* internal/container: Manager.Backup                                      *)
(***************************************************************************)
Idle == [pc |-> "idle", op |-> None, runs |-> 0, ts |-> 0, isRunning |-> FALSE,
         gen |-> 0, idx |-> 0, dest |-> None,
         hasError |-> FALSE, attempted |-> {}, failed |-> {}, sent |-> {},
         slept |-> {}, result |-> None, prevOk |-> 0,
         ctxDone |-> FALSE, proc |-> "none"]

engineVars == <<server, cstate, cid, lastStart>>

\* invocations made so far
RECURSIVE RunsOf(_)
RunsOf(ps) ==
    IF ps = {} THEN 0
    ELSE LET p == CHOOSE q \in ps : TRUE
         IN  inv[p].runs + RunsOf(ps \ {p})

CanInvoke(p) == inv[p].pc \in {"idle", "done"} /\ RunsOf(Handlers) < MaxRuns

\* the command the loop is at
AtCmd(p, loop) ==
    /\ inv[p].pc = loop
    /\ inv[p].idx <= Len(server.backup)
CurCmd(p) == server.backup[inv[p].idx]

\* time.ParseDuration(cmd.Arg) succeeds
ParsesAsDuration(arg) == arg \in {<<"5s">>}

\* `timestamp := time.Now().Format("20060102_150405")`: the clock second
Timestamp(clock) == clock

\* Backup: the config lookup, the timestamp and the ContainerInspect
BackupBegin(p) ==
    /\ CanInvoke(p)
    /\ IF ~server.ok
       THEN inv' = [inv EXCEPT ![p] = [Idle EXCEPT !.pc = "done", !.op = "backup",
                                               !.runs = inv[p].runs + 1,
                                               !.prevOk = inv[p].prevOk,
                                               !.result = "notfound"]]
       ELSE \E inspOk \in BOOLEAN :
               inv' = [inv EXCEPT ![p] =
                          [Idle EXCEPT !.pc = "b_loop", !.op = "backup",
                                       !.runs = inv[p].runs + 1,
                                       !.prevOk = inv[p].prevOk,
                                       !.ts = Timestamp(now),
                                       !.isRunning = (inspOk /\ cstate = "running"),
                                       !.idx = 1]]
    /\ UNCHANGED <<engineVars, now, srcData, gens, latest>>
    /\ UNCHANGED cfgVars
    /\ UNCHANGED accVars

\* `if !isRunning { continue }` ahead of docker.SendCommand and of time.Sleep
ReachesProcessAlways(isRunning) == TRUE
ReachesProcess(isRunning) == isRunning

\* case "attach": skipped when not running, else docker.SendCommand (an error is logged)
BackupAttach(p) ==
    /\ AtCmd(p, "b_loop")
    /\ CurCmd(p).type = "attach"
    /\ inv' = [inv EXCEPT ![p] =
                  [@ EXCEPT !.idx = @ + 1,
                            !.sent = IF ReachesProcess(inv[p].isRunning)
                                     THEN @ \cup {inv[p].idx} ELSE @]]
    /\ UNCHANGED <<engineVars, now, srcData, gens, latest>>
    /\ UNCHANGED cfgVars
    /\ UNCHANGED accVars

\* case "sleep": skipped when not running, else time.Sleep when the duration parses
BackupSleep(p) ==
    /\ AtCmd(p, "b_loop")
    /\ CurCmd(p).type = "sleep"
    /\ inv' = [inv EXCEPT ![p] =
                  [@ EXCEPT !.idx = @ + 1,
                            !.slept = IF ReachesProcess(inv[p].isRunning)
                                         /\ ParsesAsDuration(CurCmd(p).arg)
                                      THEN @ \cup {inv[p].idx} ELSE @]]
    /\ UNCHANGED <<engineVars, now, srcData, gens, latest>>
    /\ UNCHANGED cfgVars
    /\ UNCHANGED accVars

\* case "backup" with an argument that is not src:destBase: `continue`
BackupSkipMalformed(p) ==
    /\ AtCmd(p, "b_loop")
    /\ CurCmd(p).type = "backup"
    /\ ~WellFormed(CurCmd(p))
    /\ inv' = [inv EXCEPT ![p].idx = @ + 1]
    /\ UNCHANGED <<engineVars, now, srcData, gens, latest>>
    /\ UNCHANGED cfgVars
    /\ UNCHANGED accVars

\* exec.CommandContext(ctx, "rsync", ...): a context that is done keeps the
\* command from starting, and kills the process that is running
InterruptsNever(ctxDone) == FALSE
Interrupts(ctxDone) == ctxDone

\* the process after the launch, and after the copy has failed
Launched(ctxDone) == IF Interrupts(ctxDone) THEN "none" ELSE "running"
Failed(proc, ctxDone) ==
    IF proc # "running" THEN proc
    ELSE IF Interrupts(ctxDone) THEN "killed" ELSE "exited"

\* the caller's context is cancelled or its deadline passes
CtxDone(p) ==
    /\ inv[p].pc \notin {"idle", "done"}
    /\ ~inv[p].ctxDone
    /\ inv' = [inv EXCEPT ![p].ctxDone = TRUE]
    /\ UNCHANGED <<engineVars, now, srcData, gens, latest>>
    /\ UNCHANGED cfgVars
    /\ UNCHANGED accVars

\* case "backup": MkdirAll, Stat(latest) and the launch of
\* rsync -avh --delete [--link-dest latest] src/ destBase/<timestamp>
BackupCopy(p) ==
    /\ AtCmd(p, "b_loop")
    /\ CurCmd(p).type = "backup"
    /\ WellFormed(CurCmd(p))
    /\ LET d == DestOf(CurCmd(p))
       IN  /\ gens' = IF Launched(inv[p].ctxDone) = "running"
                      THEN [gens EXCEPT ![d][inv[p].ts] = Partial]
                      ELSE gens
           /\ inv' = [inv EXCEPT ![p] = [@ EXCEPT !.pc = "b_rsync", !.dest = d,
                                                  !.attempted = @ \cup {inv[p].idx},
                                                  !.proc = Launched(inv[p].ctxDone)]]
    /\ UNCHANGED <<engineVars, now, srcData, latest>>
    /\ UNCHANGED cfgVars
    /\ UNCHANGED accVars

\* rsync exits 0: destBase/<timestamp> mirrors src
BackupRsyncOk(p) ==
    /\ inv[p].pc = "b_rsync"
    /\ inv[p].proc = "running"
    /\ ~Interrupts(inv[p].ctxDone)
    /\ gens' = [gens EXCEPT ![inv[p].dest][inv[p].ts] = srcData]
    /\ inv' = [inv EXCEPT ![p] = [@ EXCEPT !.pc = "b_remove", !.proc = "exited"]]
    /\ UNCHANGED <<engineVars, now, srcData, latest>>
    /\ UNCHANGED cfgVars
    /\ UNCHANGED accVars

\* what a failed copy does to destBase/latest
FailedCopyLatestCleared(l, d) == [l EXCEPT ![d] = NoLatest]
FailedCopyLatest(l, d) == l

\* rsync fails or is killed by the context: hasError = true; continue
BackupRsyncFail(p) ==
    /\ inv[p].pc = "b_rsync"
    /\ latest' = FailedCopyLatest(latest, inv[p].dest)
    /\ inv' = [inv EXCEPT ![p] = [@ EXCEPT !.pc = "b_loop", !.idx = @ + 1,
                                           !.hasError = TRUE,
                                           !.failed = @ \cup {inv[p].idx},
                                           !.proc = Failed(inv[p].proc,
                                                           inv[p].ctxDone)]]
    /\ UNCHANGED <<engineVars, now, srcData, gens>>
    /\ UNCHANGED cfgVars
    /\ UNCHANGED accVars

\* `_ = os.Remove(latest)`
BackupRemoveLatest(p) ==
    /\ inv[p].pc = "b_remove"
    /\ latest' = [latest EXCEPT ![inv[p].dest] = NoLatest]
    /\ inv' = [inv EXCEPT ![p].pc = "b_symlink"]
    /\ UNCHANGED <<engineVars, now, srcData, gens>>
    /\ UNCHANGED cfgVars
    /\ UNCHANGED accVars

\* os.Symlink(timestamp, latest): the link's target
SymlinkTarget(ts, old) == IF old = NoLatest THEN ts ELSE old

\* `_ = os.Symlink(timestamp, latest)`: fails, unreported, when latest exists
BackupSymlink(p) ==
    /\ inv[p].pc = "b_symlink"
    /\ latest' = [latest EXCEPT ![inv[p].dest] = SymlinkTarget(inv[p].ts, @)]
    /\ inv' = [inv EXCEPT ![p] = [@ EXCEPT !.pc = "b_loop", !.idx = @ + 1]]
    /\ UNCHANGED <<engineVars, now, srcData, gens>>
    /\ UNCHANGED cfgVars
    /\ UNCHANGED accVars

\* the value Backup returns after the loop
BackupResultAlwaysOk(hasError) == "ok"
BackupResult(hasError) == IF hasError THEN "partial" ELSE "ok"

\* after the loop: the aggregate error, or nil
BackupEnd(p) ==
    /\ inv[p].pc = "b_loop"
    /\ inv[p].idx > Len(server.backup)
    /\ inv' = [inv EXCEPT ![p] =
                  [@ EXCEPT !.pc = "done",
                            !.result = BackupResult(inv[p].hasError),
                            !.prevOk = IF ~inv[p].hasError /\ inv[p].attempted # {}
                                       THEN inv[p].ts ELSE @]]
    /\ UNCHANGED <<engineVars, now, srcData, gens, latest>>
    /\ UNCHANGED cfgVars
    /\ UNCHANGED accVars

(***************************************************************************)
(* internal/container: Manager.Restore, called by Server.RestoreAction     *)
(* and the bot's /action restore with the generation the caller names      *)
(***************************************************************************)
\* `if inspect, err := ContainerInspect(ctx, id); err == nil && inspect.State.Running`
Refuses(inspOk, running) == inspOk /\ running

\* Restore: the config lookup and the running guard
RestoreBegin(p) ==
    /\ CanInvoke(p)
    /\ \E g \in GenArgs :
          LET base == [Idle EXCEPT !.op = "restore", !.gen = g,
                                   !.runs = inv[p].runs + 1,
                                   !.prevOk = inv[p].prevOk]
          IN  IF ~server.ok
              THEN inv' = [inv EXCEPT ![p] = [base EXCEPT !.pc = "done",
                                                          !.result = "notfound"]]
              ELSE \E inspOk \in BOOLEAN :
                      IF Refuses(inspOk, cstate = "running")
                      THEN inv' = [inv EXCEPT ![p] =
                                      [base EXCEPT !.pc = "done",
                                                   !.result = "conflict"]]
                      ELSE inv' = [inv EXCEPT ![p] =
                                      [base EXCEPT !.pc = "r_loop", !.idx = 1]]
    /\ UNCHANGED <<engineVars, now, srcData, gens, latest>>
    /\ UNCHANGED cfgVars
    /\ UNCHANGED accVars

\* the directory Restore copies from: `latest := fmt.Sprintf("%s/latest", destBase)`
RestoreFrom(d, g) == latest[d]

\* a step that is not `backup`, not src:destBase, or whose Stat(latest) fails: continue
RestoreSkip(p) ==
    /\ AtCmd(p, "r_loop")
    /\ \/ CurCmd(p).type # "backup"
       \/ /\ CurCmd(p).type = "backup"
          /\ ~WellFormed(CurCmd(p))
       \/ /\ CurCmd(p).type = "backup"
          /\ WellFormed(CurCmd(p))
          /\ RestoreFrom(DestOf(CurCmd(p)), inv[p].gen) = NoLatest
    /\ inv' = [inv EXCEPT ![p].idx = @ + 1]
    /\ UNCHANGED <<engineVars, now, srcData, gens, latest>>
    /\ UNCHANGED cfgVars
    /\ UNCHANGED accVars

\* the launch of rsync -avh --delete destBase/latest/ src
RestoreCopy(p) ==
    /\ AtCmd(p, "r_loop")
    /\ CurCmd(p).type = "backup"
    /\ WellFormed(CurCmd(p))
    /\ RestoreFrom(DestOf(CurCmd(p)), inv[p].gen) # NoLatest
    /\ inv' = [inv EXCEPT ![p] = [@ EXCEPT !.pc = "r_rsync",
                                           !.dest = DestOf(CurCmd(p)),
                                           !.attempted = @ \cup {inv[p].idx},
                                           !.proc = Launched(inv[p].ctxDone)]]
    /\ UNCHANGED <<engineVars, now, srcData, gens, latest>>
    /\ UNCHANGED cfgVars
    /\ UNCHANGED accVars

\* the generations after `rsync -avh --delete latest/ src`: the directory
\* copied from is the source argument of rsync, which only reads it
RsyncReadEmptied(g, dest, from) == [g EXCEPT ![dest][from] = Partial]
RsyncRead(g, dest, from) == g

\* rsync exits 0: src mirrors the directory it copied from
RestoreRsyncOk(p) ==
    /\ inv[p].pc = "r_rsync"
    /\ inv[p].proc = "running"
    /\ ~Interrupts(inv[p].ctxDone)
    /\ RestoreFrom(inv[p].dest, inv[p].gen) # NoLatest
    /\ srcData' = gens[inv[p].dest][RestoreFrom(inv[p].dest, inv[p].gen)]
    /\ gens' = RsyncRead(gens, inv[p].dest, RestoreFrom(inv[p].dest, inv[p].gen))
    /\ inv' = [inv EXCEPT ![p] = [@ EXCEPT !.pc = "r_loop", !.idx = @ + 1,
                                           !.proc = "exited"]]
    /\ UNCHANGED <<engineVars, now, latest>>
    /\ UNCHANGED cfgVars
    /\ UNCHANGED accVars

\* rsync fails or is killed by the context: src is untouched or half written
RestoreRsyncFail(p) ==
    /\ inv[p].pc = "r_rsync"
    /\ \E touched \in BOOLEAN :
          srcData' = IF touched /\ inv[p].proc = "running" THEN Partial ELSE srcData
    /\ inv' = [inv EXCEPT ![p] = [@ EXCEPT !.pc = "r_loop", !.idx = @ + 1,
                                           !.hasError = TRUE,
                                           !.failed = @ \cup {inv[p].idx},
                                           !.proc = Failed(inv[p].proc,
                                                           inv[p].ctxDone)]]
    /\ UNCHANGED <<engineVars, now, gens, latest>>
    /\ UNCHANGED cfgVars
    /\ UNCHANGED accVars

\* after the loop: the aggregate error, or nil
RestoreEnd(p) ==
    /\ inv[p].pc = "r_loop"
    /\ inv[p].idx > Len(server.backup)
    /\ inv' = [inv EXCEPT ![p] =
                  [@ EXCEPT !.pc = "done",
                            !.result = IF inv[p].hasError THEN "partial" ELSE "ok"]]
    /\ UNCHANGED <<engineVars, now, srcData, gens, latest>>
    /\ UNCHANGED cfgVars
    /\ UNCHANGED accVars

(***************************************************************************)
(* The environment of the handlers                                         *)
(***************************************************************************)
\* the clock reaches the next second
Tick ==
    /\ now < MaxClock
    /\ now' = now + 1
    /\ UNCHANGED <<engineVars, srcData, gens, latest, inv>>
    /\ UNCHANGED cfgVars
    /\ UNCHANGED accVars

\* the files under the source path change (the game saves, a user uploads)
WorldChange ==
    /\ \E c \in Contents \ {srcData} : srcData' = c
    /\ UNCHANGED <<engineVars, now, gens, latest, inv>>
    /\ UNCHANGED cfgVars
    /\ UNCHANGED accVars

(***************************************************************************)
(* internal/config: permission tokens and UserConfig.HasPermission         *)
(***************************************************************************)
\* the words permission tokens are written with; a token is the sequence of
\* its words and of the "." between them
Words == {"container", "execute", "start", "stop", "*"}
Dot == "."

\* segs[1] . segs[2] . ... . segs[n]
RECURSIVE Join(_)
Join(segs) ==
    IF Len(segs) = 0 THEN <<>>
    ELSE IF Len(segs) = 1 THEN <<segs[1]>>
    ELSE <<segs[1], Dot>> \o Join(Tail(segs))

Tokens == {Join(segs) : segs \in UNION {[1 .. n -> Words] : n \in 1 .. MaxSegs}}

\* strings.Split(s, "."): the pieces between the dots, the empty ones included
RECURSIVE Split(_, _, _)
Split(s, i, cur) ==
    IF i > Len(s) THEN <<cur>>
    ELSE IF s[i] = Dot THEN <<cur>> \o Split(s, i + 1, <<>>)
    ELSE Split(s, i + 1, Append(cur, s[i]))

Parts(s) == Split(s, 1, <<>>)

\* the token "*" and the segment "*"
Star == <<"*">>

\* `if i >= len(reqParts) || userParts[i] != reqParts[i] { return false }`
SegmentDiffersPastEnd(userParts, reqParts, i) == i > Len(reqParts)
SegmentDiffers(userParts, reqParts, i) == i > Len(reqParts) \/ userParts[i] # reqParts[i]

\* `return len(userParts) == len(reqParts)`
SameLengthIgnored(userParts, reqParts) == TRUE
SameLength(userParts, reqParts) == Len(userParts) = Len(reqParts)

\* matchRecursive: the loop `for i := 0; i < len(userParts); i++`
RECURSIVE MatchLoop(_, _, _)
MatchLoop(userParts, reqParts, i) ==
    IF i > Len(userParts) THEN SameLength(userParts, reqParts)
    ELSE IF userParts[i] = Star THEN TRUE
    ELSE IF SegmentDiffers(userParts, reqParts, i) THEN FALSE
    ELSE MatchLoop(userParts, reqParts, i + 1)

matchRecursive(userPerm, required) ==
    IF userPerm = Star THEN TRUE
    ELSE IF userPerm = required THEN TRUE
    ELSE MatchLoop(Parts(userPerm), Parts(required), 1)

\* the permission constants of config.go
PermFileRead == Join(<<"file", "read">>)
PermFileWrite == Join(<<"file", "write">>)
PermContainerRead == Join(<<"container", "read">>)
PermContainerWrite == Join(<<"container", "write">>)
PermContainerExecute == Join(<<"container", "execute", "*">>)
PermContainerStart == Join(<<"container", "execute", "start">>)
PermContainerStop == Join(<<"container", "execute", "stop">>)
PermContainerKill == Join(<<"container", "execute", "kill">>)
PermContainerBackup == Join(<<"container", "execute", "backup">>)
PermContainerRestore == Join(<<"container", "execute", "restore">>)
PermContainerRemove == Join(<<"container", "execute", "remove">>)

\* the keys of UserConfig.Permissions: server names and "*"
ServerNames == {"mc1", "mc2"}
PermKeys == ServerNames \cup {"*"}

\* UserConfig.Permissions == nil (also the zero UserConfig of an unknown user)
NoPerms == [nil |-> TRUE, map |-> [k \in {} |-> <<>>]]
\* a permission map read from config.json
Perms(m) == [nil |-> FALSE, map |-> m]

\* u.Permissions[key]: the nil slice when the map has no such key
Lookup(perms, key) == IF key \in DOMAIN perms.map THEN perms.map[key] ELSE <<>>

\* checkPermission: `for _, p := range userPerms`
RECURSIVE checkPermission(_, _)
checkPermission(userPerms, required) ==
    IF userPerms = <<>> THEN FALSE
    ELSE IF matchRecursive(Head(userPerms), required) THEN TRUE
    ELSE checkPermission(Tail(userPerms), required)

\* the second key HasPermission looks under: u.Permissions["*"]
WildcardKeyForgotten(serverName) == serverName
WildcardKey(serverName) == "*"

\* UserConfig.HasPermission
HasPermission(perms, serverName, requiredPerm) ==
    IF perms.nil THEN FALSE
    ELSE IF checkPermission(Lookup(perms, serverName), requiredPerm) THEN TRUE
    ELSE IF checkPermission(Lookup(perms, WildcardKey(serverName)), requiredPerm)
    THEN TRUE
    ELSE FALSE

NoCheck == [perms |-> NoPerms, server |-> "mc1", required |-> <<>>,
            pc |-> "idle", result |-> FALSE]

\* a call u.HasPermission(serverName, requiredPerm) returns
HasPermissionReturn ==
    /\ check.pc = "call"
    /\ check' = [check EXCEPT !.pc = "done",
                              !.result = HasPermission(check.perms, check.server,
                                                       check.required)]
    /\ UNCHANGED <<match, access, disk, req, attach, run, bots, tails>>
    /\ UNCHANGED cfgVars
    /\ UNCHANGED lifeVars

NoMatch == [userPerm |-> <<>>, required |-> <<>>, pc |-> "idle", result |-> FALSE]

\* a call matchRecursive(userPerm, required) returns
MatchReturn ==
    /\ match.pc = "call"
    /\ match' = [match EXCEPT !.pc = "done",
                              !.result = matchRecursive(match.userPerm,
                                                        match.required)]
    /\ UNCHANGED <<check, access, disk, req, attach, run, bots, tails>>
    /\ UNCHANGED cfgVars
    /\ UNCHANGED lifeVars

(***************************************************************************)
(* internal/vfs: Handler.MapPath, and the SFTP and WebDAV handlers on it   *)
(***************************************************************************)
\* the user name of the session, and the mount destinations of a container
UserNames == {"alice"}
MountNames == {"data"}
FileNames == {"f"}

ErrVfsRoot == "vfs_root"
ErrVfsContainerRoot == "vfs_container_root"
ErrPermission == "permission denied"
ErrNotExist == "file does not exist"
ErrOs == "os error"

\* a path string: whether it begins with "/", and its segments between
\* the slashes; Abs(<<>>) is "/" and Rel(<<>>) is the empty string
Abs(segs) == [rooted |-> TRUE, segs |-> segs]
Rel(segs) == [rooted |-> FALSE, segs |-> segs]

\* filepath.Clean: "." and empty segments go, ".." takes the segment before
\* it, at the root ".." goes, at the head of a relative path it stays
RECURSIVE CleanLoop(_, _, _)
CleanLoop(rest, out, rooted) ==
    IF rest = <<>> THEN out
    ELSE IF Head(rest) \in {"", "."} THEN CleanLoop(Tail(rest), out, rooted)
    ELSE IF Head(rest) # ".."
    THEN CleanLoop(Tail(rest), Append(out, Head(rest)), rooted)
    ELSE IF out # <<>> /\ out[Len(out)] # ".."
    THEN CleanLoop(Tail(rest), SubSeq(out, 1, Len(out) - 1), rooted)
    ELSE IF rooted THEN CleanLoop(Tail(rest), out, rooted)
    ELSE CleanLoop(Tail(rest), Append(out, ".."), rooted)

\* the result of filepath.Clean on the empty string: "."
EmptyClean == [rooted |-> FALSE, segs |-> <<".">>]

\* filepath.Clean
Clean(path) ==
    LET out == CleanLoop(path.segs, <<>>, path.rooted) IN
    IF out = <<>> /\ ~path.rooted THEN EmptyClean
    ELSE [rooted |-> path.rooted, segs |-> out]

\* strings.Split(strings.Trim(path, "/"), "/"): one empty segment for "/"
\* and for the empty string
TrimSplit(path) == IF path.segs = <<>> THEN <<"">> ELSE path.segs

\* strings.Split(strings.Trim(path, "/"), "/")[0]: "" for the root
FirstSegment(path) == TrimSplit(path)[1]

\* cfg.Users[name]: the zero UserConfig when the map has no such user
UserOf(cfg, name) == IF name \in DOMAIN cfg.Users THEN cfg.Users[name] ELSE NoPerms

\* inspect.Mounts of a container: strings.Trim(m.Destination, "/") of every
\* mount, as its segments; a container has mounts below the first level too
Destinations(containerName) ==
    {<<m>> : m \in MountNames}
    \cup (IF containerName = "mc1" THEN {<<"data", "world">>} ELSE {<<"maps", "world">>})

\* the mounts `cPath == targetSubPath` can hold for, targetSubPath being one
\* segment of the path: those whose Destination is one segment
Mounts(containerName) ==
    {d[1] : d \in {e \in Destinations(containerName) : Len(e) = 1}}

\* m.Source of the mount of a container at a destination: a host directory
MountSource(containerName, dest) == <<"srv", containerName, dest>>

\* m.Source of the mount at a destination given by its segments; a mount
\* below the first level has a host directory of its own
Source(containerName, dest) ==
    IF Len(dest) = 1 THEN MountSource(containerName, dest[1])
    ELSE <<"vol", containerName>> \o dest

\* Filelist and Readdir on a server-root: one entry per mount, named
\* strings.Trim(m.Destination, "/"); none when ContainerInspect fails
Filelist(containerName, inspectOk) ==
    IF inspectOk THEN Destinations(containerName) ELSE {}

\* what one call of MapPath returned and whether it queried the engine;
\* the host path returned is filepath.Join(m.Source, rel)
Resolved(path, err, srv, rel, inspected) ==
    [path |-> path, err |-> err, server |-> srv, rel |-> rel, inspected |-> inspected]

\* the host path of a resolution that succeeded on mount destination dest
HostPath(m, dest) == MountSource(m.server, dest) \o m.rel

\* `!user.HasPermission(containerName, config.PermContainerRead)`
ReadDeniedNever(perms, containerName) == FALSE
ReadDenied(perms, containerName) == ~HasPermission(perms, containerName, PermContainerRead)

\* Handler.MapPath; inspectOk is the outcome of docker.Client.ContainerInspect
MapPath(cfg, username, path, inspectOk) ==
    LET parts == TrimSplit(Clean(path)) IN
    IF Len(parts) = 0 \/ (Len(parts) = 1 /\ parts[1] = "")
    THEN Resolved(path, ErrVfsRoot, None, <<>>, FALSE)
    ELSE IF username \notin DOMAIN cfg.Users
    THEN Resolved(path, ErrPermission, None, <<>>, FALSE)
    ELSE IF ReadDenied(cfg.Users[username], parts[1])
    THEN Resolved(path, ErrPermission, None, <<>>, FALSE)
    ELSE IF parts[1] \notin cfg.Servers
    THEN Resolved(path, ErrNotExist, None, <<>>, FALSE)
    ELSE IF Len(parts) = 1
    THEN Resolved(path, ErrVfsContainerRoot, None, <<>>, FALSE)
    ELSE IF ~inspectOk THEN Resolved(path, ErrNotExist, None, <<>>, TRUE)
    ELSE IF parts[2] \in Mounts(parts[1])
    THEN Resolved(path, None, parts[1], SubSeq(parts, 3, Len(parts)), TRUE)
    ELSE Resolved(path, ErrNotExist, None, <<>>, TRUE)

\* the os calls of the handlers on a resolved host path; the result is the
\* error and the disk afterwards.  A host path with rel = <<>> is the
\* directory of the mount itself, rel = <<f>> the entry f in it.
OsResult(err, d) == [err |-> err, disk |-> d]

\* os.OpenFile(O_WRONLY|O_CREATE|O_TRUNC): creates or truncates the entry
OsCreate(d, hp) ==
    IF Len(hp.rel) # 1 THEN OsResult(ErrOs, d)
    ELSE OsResult(None, [d EXCEPT ![hp.server] = @ \cup {hp.rel[1]}])

\* os.MkdirAll: creates the entry when it is missing
OsMkdirAll(d, hp) ==
    IF Len(hp.rel) > 1 THEN OsResult(ErrOs, d)
    ELSE IF hp.rel = <<>> THEN OsResult(None, d)
    ELSE OsResult(None, [d EXCEPT ![hp.server] = @ \cup {hp.rel[1]}])

\* os.RemoveAll: removes the entry, or everything in the mount directory
OsRemoveAll(d, hp) ==
    IF Len(hp.rel) > 1 THEN OsResult(None, d)
    ELSE IF hp.rel = <<>> THEN OsResult(None, [d EXCEPT ![hp.server] = {}])
    ELSE OsResult(None, [d EXCEPT ![hp.server] = @ \ {hp.rel[1]}])

\* os.Remove: removes an existing entry; the mount directory is busy
OsRemove(d, hp) ==
    IF Len(hp.rel) # 1 THEN OsResult(ErrOs, d)
    ELSE IF hp.rel[1] \notin d[hp.server] THEN OsResult(ErrOs, d)
    ELSE OsResult(None, [d EXCEPT ![hp.server] = @ \ {hp.rel[1]}])

\* os.Rename: moves an existing entry to the target entry
OsRename(d, hp, target) ==
    IF Len(hp.rel) # 1 \/ Len(target.rel) # 1 THEN OsResult(ErrOs, d)
    ELSE IF hp.rel[1] \notin d[hp.server] THEN OsResult(ErrOs, d)
    ELSE LET gone == [d EXCEPT ![hp.server] = @ \ {hp.rel[1]}]
         IN OsResult(None, [gone EXCEPT ![target.server] = @ \cup {target.rel[1]}])

\* os.Open / os.Stat: leave the disk alone
OsOpen(d, hp) ==
    IF Len(hp.rel) > 1 THEN OsResult(ErrOs, d)
    ELSE IF hp.rel # <<>> /\ hp.rel[1] \notin d[hp.server] THEN OsResult(ErrOs, d)
    ELSE OsResult(None, d)

\* the os call a handler makes on the host path it resolved
Os(call, d, hp) ==
    IF call = "OpenFile" THEN OsCreate(d, hp)
    ELSE IF call = "MkdirAll" THEN OsMkdirAll(d, hp)
    ELSE IF call = "RemoveAll" THEN OsRemoveAll(d, hp)
    ELSE IF call = "Remove" THEN OsRemove(d, hp)
    ELSE OsOpen(d, hp)

NoReq == [front |-> None, method |-> None, user |-> None, path |-> Abs(<<>>),
          target |-> Abs(<<>>), pc |-> "idle", err |-> None, maps |-> <<>>]

\* the handler returns err after the MapPath calls in maps, leaving disk d
Returns(err, maps, d) ==
    /\ req' = [req EXCEPT !.pc = "done", !.err = err, !.maps = maps]
    /\ disk' = d
    /\ UNCHANGED <<match, check, access, attach, run, bots, tails>>
    /\ UNCHANGED cfgVars
    /\ UNCHANGED lifeVars

\* the handler resolves req.path and, on success, makes one os call
ResolveThen(inspectOk, call) ==
    LET m == MapPath(access, req.user, req.path, inspectOk) IN
    IF m.err # None THEN Returns(m.err, <<m>>, disk)
    ELSE Returns(Os(call, disk, m).err, <<m>>, Os(call, disk, m).disk)

\* a call of Handler.MapPath by itself
MapPathReturn ==
    /\ req.pc = "pending" /\ req.front = "vfs"
    /\ \E inspectOk \in BOOLEAN :
          LET m == MapPath(access, req.user, req.path, inspectOk)
          IN  Returns(m.err, <<m>>, disk)

\* sftpHandler.Fileread
SftpFileread ==
    /\ req.pc = "pending" /\ req.front = "sftp" /\ req.method = "Get"
    /\ \E inspectOk \in BOOLEAN : ResolveThen(inspectOk, "Open")

\* the file.write check of sftpHandler.Filewrite and Filecmd, on r.Filepath
SftpWriteDenied ==
    ~HasPermission(UserOf(access, req.user), FirstSegment(req.path), PermFileWrite)

\* sftpHandler.Filewrite
SftpFilewrite ==
    /\ req.pc = "pending" /\ req.front = "sftp" /\ req.method = "Put"
    /\ IF SftpWriteDenied THEN Returns(ErrPermission, <<>>, disk)
       ELSE \E inspectOk \in BOOLEAN : ResolveThen(inspectOk, "OpenFile")

\* the `case "Rename"` of sftpHandler.Filecmd, after r.Filepath resolved to m
SftpRename(m, inspectOk) ==
    LET t == MapPath(access, req.user, req.target, inspectOk) IN
    IF t.err # None THEN Returns(t.err, <<m, t>>, disk)
    ELSE Returns(OsRename(disk, m, t).err, <<m, t>>, OsRename(disk, m, t).disk)

SftpCmds == {"Setstat", "Rename", "Rmdir", "Mkdir", "Remove", "Symlink"}

\* sftpHandler.Filecmd
SftpFilecmd ==
    /\ req.pc = "pending" /\ req.front = "sftp" /\ req.method \in SftpCmds
    /\ IF SftpWriteDenied THEN Returns(ErrPermission, <<>>, disk)
       ELSE \E inspectOk \in BOOLEAN, inspectOk2 \in BOOLEAN :
            LET m == MapPath(access, req.user, req.path, inspectOk) IN
            IF m.err # None THEN Returns(m.err, <<m>>, disk)
            ELSE IF req.method = "Setstat" THEN Returns(None, <<m>>, disk)
            ELSE IF req.method = "Rename" THEN SftpRename(m, inspectOk2)
            ELSE IF req.method = "Rmdir"
            THEN Returns(OsRemoveAll(disk, m).err, <<m>>, OsRemoveAll(disk, m).disk)
            ELSE IF req.method = "Mkdir"
            THEN Returns(OsMkdirAll(disk, m).err, <<m>>, OsMkdirAll(disk, m).disk)
            ELSE IF req.method = "Remove"
            THEN Returns(OsRemove(disk, m).err, <<m>>, OsRemove(disk, m).disk)
            ELSE Returns(ErrOs, <<m>>, disk)

\* vfsWebdavAdapter.checkWritePerm
checkWritePerm(path) ==
    IF FirstSegment(path) = "" THEN ErrPermission
    ELSE IF ~HasPermission(UserOf(access, req.user), FirstSegment(path), PermFileWrite)
    THEN ErrPermission
    ELSE None

\* vfsWebdavAdapter.Mkdir
WebdavMkdir ==
    /\ req.pc = "pending" /\ req.front = "webdav" /\ req.method = "Mkdir"
    /\ IF checkWritePerm(req.path) # None THEN Returns(ErrPermission, <<>>, disk)
       ELSE \E inspectOk \in BOOLEAN : ResolveThen(inspectOk, "MkdirAll")

\* vfsWebdavAdapter.OpenFile after its permission check, and Stat: the root
\* and a container root are virtual directories
OpenThen(inspectOk, call) ==
    LET m == MapPath(access, req.user, req.path, inspectOk) IN
    IF m.err \in {ErrVfsRoot, ErrVfsContainerRoot} THEN Returns(None, <<m>>, disk)
    ELSE IF m.err # None THEN Returns(m.err, <<m>>, disk)
    ELSE Returns(Os(call, disk, m).err, <<m>>, Os(call, disk, m).disk)

\* vfsWebdavAdapter.OpenFile with a flag of O_WRONLY, O_RDWR, O_CREATE, O_TRUNC
WebdavOpenFileWrite ==
    /\ req.pc = "pending" /\ req.front = "webdav" /\ req.method = "OpenFileWrite"
    /\ IF checkWritePerm(req.path) # None THEN Returns(ErrPermission, <<>>, disk)
       ELSE \E inspectOk \in BOOLEAN : OpenThen(inspectOk, "OpenFile")

\* vfsWebdavAdapter.OpenFile with O_RDONLY
WebdavOpenFileRead ==
    /\ req.pc = "pending" /\ req.front = "webdav" /\ req.method = "OpenFileRead"
    /\ \E inspectOk \in BOOLEAN : OpenThen(inspectOk, "Open")

\* vfsWebdavAdapter.RemoveAll
WebdavRemoveAll ==
    /\ req.pc = "pending" /\ req.front = "webdav" /\ req.method = "RemoveAll"
    /\ IF checkWritePerm(req.path) # None THEN Returns(ErrPermission, <<>>, disk)
       ELSE \E inspectOk \in BOOLEAN : ResolveThen(inspectOk, "RemoveAll")

\* vfsWebdavAdapter.Rename
WebdavRename ==
    /\ req.pc = "pending" /\ req.front = "webdav" /\ req.method = "Rename"
    /\ IF checkWritePerm(req.path) # None THEN Returns(ErrPermission, <<>>, disk)
       ELSE IF checkWritePerm(req.target) # None
       THEN Returns(ErrPermission, <<>>, disk)
       ELSE \E inspectOk \in BOOLEAN, inspectOk2 \in BOOLEAN :
            LET m == MapPath(access, req.user, req.path, inspectOk)
                t == MapPath(access, req.user, req.target, inspectOk2)
            IN IF m.err # None THEN Returns(m.err, <<m>>, disk)
               ELSE IF t.err # None THEN Returns(t.err, <<m, t>>, disk)
               ELSE Returns(OsRename(disk, m, t).err, <<m, t>>,
                            OsRename(disk, m, t).disk)

\* vfsWebdavAdapter.Stat
WebdavStat ==
    /\ req.pc = "pending" /\ req.front = "webdav" /\ req.method = "Stat"
    /\ \E inspectOk \in BOOLEAN : OpenThen(inspectOk, "Open")

(***************************************************************************)
(* The front ends of the lifecycle manager: internal/api and               *)
(* internal/discord                                                        *)
(***************************************************************************)
\* the actions the routes /api/container/<action> and the bot's /action name
Actions == {"start", "stop", "kill", "backup", "restore", "remove"}

\* container.execute.<action>
ExecutePerm(a) == Join(<<"container", "execute", a>>)

\* the token Server.Action and Server.RestoreAction require: "execute"
PermHttpExecute == Join(<<"execute">>)

\* the token the bot requires for restore: the `default` of containerToPerm
RestorePerm == PermContainerExecute

\* containerToPerm
containerToPerm(a) ==
    IF a = "start" THEN PermContainerStart
    ELSE IF a = "stop" THEN PermContainerStop
    ELSE IF a = "kill" THEN PermContainerKill
    ELSE IF a = "backup" THEN PermContainerBackup
    ELSE IF a = "remove" THEN PermContainerRemove
    ELSE RestorePerm

\* Manager.ExecuteAction: the method it delegates to, None for `default`
ExecuteAction(a) ==
    IF a \in {"start", "stop", "kill", "backup", "restore"} THEN a ELSE None

\* the front end answers: whether the user was allowed and the Manager
\* method that ran
Answers(allowed, called) ==
    /\ req' = [req EXCEPT !.pc = "done", !.allowed = allowed, !.called = called]
    /\ UNCHANGED <<match, check, access, disk, attach, run, bots, tails>>
    /\ UNCHANGED cfgVars
    /\ UNCHANGED lifeVars

\* Server.Action(action), the handler of /api/container/<action>
HttpAction ==
    /\ req.pc = "pending" /\ req.front = "http"
    /\ IF ~HasPermission(UserOf(access, req.user), req.server, PermHttpExecute)
       THEN Answers(FALSE, None)
       ELSE Answers(TRUE, ExecuteAction(req.action))

\* Server.RestoreAction
HttpRestoreAction ==
    /\ req.pc = "pending" /\ req.front = "http_restore"
    /\ IF ~HasPermission(UserOf(access, req.user), req.server, PermHttpExecute)
       THEN Answers(FALSE, None)
       ELSE Answers(TRUE, "restore")

\* BotManager.onInteractionCreate for the command "action"
BotAction ==
    /\ req.pc = "pending" /\ req.front = "bot"
    /\ IF ~HasPermission(UserOf(access, req.user), req.server,
                         containerToPerm(req.action))
       THEN Answers(FALSE, None)
       ELSE IF req.action = "restore"
       THEN Answers(TRUE, IF req.generation = "" THEN None ELSE "restore")
       ELSE Answers(TRUE, ExecuteAction(req.action))

(***************************************************************************)
(* Attach streams: Server.TerminalHandler in mode "attach" and             *)
(* docker.SendCommand                                                      *)
(***************************************************************************)
\* goroutines serving /ws/terminal?mode=attach, and callers of SendCommand
\* (Server.CmdContainer, Manager.Stop, Manager.Backup, the bot)
Terminals == {"t1", "t2"}
Senders == {"s1", "s2"}
Attachers == Terminals \cup Senders

NoAttach == [AttachLocks |-> {},
             stream |-> [p \in Attachers |-> None],
             pc |-> [p \in Attachers |-> "idle"],
             id |-> [p \in Attachers |-> None]]

AttachFrame ==
    /\ UNCHANGED <<match, check, access, disk, req, run, bots, tails>>
    /\ UNCHANGED cfgVars
    /\ UNCHANGED lifeVars

\* `if docker.AttachLocks[id]`: the guard of the terminal's attach mode
Locked(id) == id \in attach.AttachLocks

\* TerminalHandler, mode "attach": the section under AttachLockMu
TerminalLock(t) ==
    /\ t \in Terminals
    /\ attach.pc[t] = "idle"
    /\ \E id \in ServerNames :
          IF Locked(id)
          THEN attach' = [attach EXCEPT !.pc[t] = "rejected", !.id[t] = id]
          ELSE attach' = [attach EXCEPT !.pc[t] = "locked", !.id[t] = id,
                                        !.AttachLocks = @ \cup {id}]
    /\ AttachFrame

\* http.Error(w, "Locked", 409); return
TerminalRejected(t) ==
    /\ t \in Terminals
    /\ attach.pc[t] = "rejected"
    /\ attach' = [attach EXCEPT !.pc[t] = "idle", !.id[t] = None]
    /\ AttachFrame

\* docker.Client.ContainerAttach with Stdin: the stream opens, or the call
\* fails and the handler returns
TerminalAttach(t) ==
    /\ t \in Terminals
    /\ attach.pc[t] = "locked"
    /\ \E ok \in BOOLEAN :
          IF ok
          THEN attach' = [attach EXCEPT !.pc[t] = "attached",
                                        !.stream[t] = attach.id[t]]
          ELSE attach' = [attach EXCEPT !.pc[t] = "unlocking"]
    /\ AttachFrame

\* the upgrade fails or a copy goroutine ends: stream.Close()
TerminalClose(t) ==
    /\ t \in Terminals
    /\ attach.pc[t] = "attached"
    /\ attach' = [attach EXCEPT !.pc[t] = "unlocking", !.stream[t] = None]
    /\ AttachFrame

\* delete(docker.AttachLocks, id)
DeleteNothing(locks, id) == locks
Delete(locks, id) == locks \ {id}

\* the deferred delete(docker.AttachLocks, id), and the handler returns
\* (attach.id keeps the container the handler was called for)
TerminalUnlock(t) ==
    /\ t \in Terminals
    /\ attach.pc[t] = "unlocking"
    /\ attach' = [attach EXCEPT !.pc[t] = "idle",
                                !.AttachLocks = Delete(@, attach.id[t])]
    /\ AttachFrame

\* SendCommand: Client.ContainerAttach with Stdin; an error is returned
SendCommandAttach(p) ==
    /\ p \in Senders
    /\ attach.pc[p] = "idle"
    /\ \E id \in ServerNames, ok \in BOOLEAN :
          IF ok
          THEN attach' = [attach EXCEPT !.pc[p] = "writing", !.id[p] = id,
                                        !.stream[p] = id]
          ELSE attach' = attach
    /\ AttachFrame

\* SendCommand: resp.Conn.Write([]byte(command))
SendCommandWrite(p) ==
    /\ p \in Senders
    /\ attach.pc[p] = "writing"
    /\ attach' = [attach EXCEPT !.pc[p] = "closing"]
    /\ AttachFrame

\* SendCommand: the deferred resp.Close()
SendCommandClose(p) ==
    /\ p \in Senders
    /\ attach.pc[p] = "closing"
    /\ attach' = [attach EXCEPT !.pc[p] = "idle", !.id[p] = None,
                                !.stream[p] = None]
    /\ AttachFrame

(***************************************************************************)
(* internal/container: Manager.Stop and Manager.Kill                       *)
(***************************************************************************)
\* `timeout := 30` of Manager.Kill, in seconds
KillTimeout == 30

\* server.Commands.Stop: the stop sequences of the configurations drawn
StopSeqs == {<<>>,
             <<Cmd("attach", <<"stop">>), Cmd("sleep", <<"5s">>)>>,
             <<Cmd("log", <<"stopping">>), Cmd("exec", <<"sync">>),
               Cmd("sleep", <<"soon">>)>>}

NoRun == [op |-> None, pc |-> "idle", known |-> FALSE, steps |-> <<>>, idx |-> 0,
          events |-> <<>>, err |-> None, pre |-> "absent", n |-> 0, result |-> <<>>]

\* an event of an invocation: a step of the list beginning or ending, or an
\* engine call with the timeout it was given (0: none) and whether it succeeded
StepEvent(i, what) ==
    [kind |-> "step", idx |-> i, what |-> what, timeout |-> 0, ok |-> TRUE]
CallEvent(call, timeout, ok) ==
    [kind |-> "call", idx |-> 0, what |-> call, timeout |-> timeout, ok |-> ok]

RunFrame ==
    /\ UNCHANGED <<match, check, access, disk, req, attach, bots, tails>>
    /\ UNCHANGED cfgVars
    /\ UNCHANGED <<server, cid, lastStart, now, srcData, gens, latest, inv>>

CanRun == run.pc \in {"idle", "done"} /\ run.n < MaxRuns

\* a new invocation op on the container as it is
Invoked(op) == [NoRun EXCEPT !.op = op, !.pre = cstate, !.n = run.n + 1]

\* the engine stops a running container; a stopped one is left as it is and
\* an absent one is an error
EngineStops(ok) == ok /\ cstate # "absent"
AfterStop(ok) == IF EngineStops(ok) /\ cstate = "running" THEN "created" ELSE cstate

\* Stop: the config lookup; an unknown server goes to the engine call at once
StopBegin ==
    /\ CanRun
    /\ \E known \in BOOLEAN, steps \in StopSeqs :
          run' = [Invoked("stop") EXCEPT !.pc = "s_loop", !.known = known, !.idx = 1,
                                         !.steps = IF known THEN steps ELSE <<>>]
    /\ UNCHANGED cstate
    /\ RunFrame

\* the loop `for _, cmd := range server.Commands.Stop` reaches a step:
\* SendCommand, SendExec, logger.Log or time.Sleep is called
StopStepBegin ==
    /\ run.op = "stop" /\ run.pc = "s_loop"
    /\ run.idx <= Len(run.steps)
    /\ run' = [run EXCEPT !.pc = "s_step",
                          !.events = Append(@, StepEvent(run.idx, "begin"))]
    /\ UNCHANGED cstate
    /\ RunFrame

\* the call of the step returns; its error is logged and the loop goes on
StopStepEnd ==
    /\ run.op = "stop" /\ run.pc = "s_step"
    /\ run' = [run EXCEPT !.pc = "s_loop", !.idx = @ + 1,
                          !.events = Append(@, StepEvent(run.idx, "end"))]
    /\ UNCHANGED cstate
    /\ RunFrame

\* the loop `for _, cmd := range server.Commands.Stop` is over
StopLoopOverAnytime(idx, steps) == TRUE
StopLoopOver(idx, steps) == idx > Len(steps)

\* docker.Client.ContainerStop(ctx, id, StopOptions{}) and the return
StopEngine ==
    /\ run.op = "stop" /\ run.pc = "s_loop"
    /\ StopLoopOver(run.idx, run.steps)
    /\ \E ok \in BOOLEAN :
          /\ run' = [run EXCEPT !.pc = "done",
                                !.events = Append(@, CallEvent("stop", 0, EngineStops(ok))),
                                !.err = IF EngineStops(ok) THEN None ELSE "stop"]
          /\ cstate' = AfterStop(ok)
    /\ RunFrame

\* `if err := ContainerStop(...Timeout: &timeout); err == nil { return nil }`
StopFailedOrNot(stopped) == TRUE
StopFailed(stopped) == ~stopped

\* Kill: the graceful stop with the timeout
KillStop ==
    /\ CanRun
    /\ \E ok \in BOOLEAN :
          /\ run' = [Invoked("kill") EXCEPT
                        !.pc = IF StopFailed(EngineStops(ok)) THEN "k_kill" ELSE "done",
                        !.err = IF EngineStops(ok) THEN None ELSE "stop",
                        !.events = <<CallEvent("stop", KillTimeout, EngineStops(ok))>>]
          /\ cstate' = AfterStop(ok)
    /\ RunFrame

\* Kill: docker.Client.ContainerKill(ctx, id, "SIGKILL"), whose error is
\* returned; the engine signals only a running container
KillSignal ==
    /\ run.op = "kill" /\ run.pc = "k_kill"
    /\ \E ok \in BOOLEAN :
          LET killed == ok /\ cstate = "running" IN
          /\ run' = [run EXCEPT !.pc = "done",
                                !.events = Append(@, CallEvent("kill", 0, killed)),
                                !.err = IF killed THEN None ELSE "kill"]
          /\ cstate' = IF killed THEN "created" ELSE cstate
    /\ RunFrame

(***************************************************************************)
(* Manager.Remove and Manager.ListBackupGenerations, which the HTTP API    *)
(* and the bot call                                                        *)
(***************************************************************************)
\* Remove refuses to run while the container is running
RemoveRefusesNever(running) == FALSE
RemoveRefuses(running) == running

\* Remove: a conflict while running, nothing to do when absent, otherwise
\* the engine's delete call, whose failure is returned
Remove ==
    /\ CanRun
    /\ \E ok \in BOOLEAN :
          IF RemoveRefuses(cstate = "running")
          THEN /\ run' = [Invoked("remove") EXCEPT !.pc = "done", !.err = "conflict"]
               /\ UNCHANGED cstate
          ELSE IF cstate = "absent"
          THEN /\ run' = [Invoked("remove") EXCEPT !.pc = "done"]
               /\ UNCHANGED cstate
          ELSE LET deleted == ok /\ cstate # "running" IN
               /\ run' = [Invoked("remove") EXCEPT
                             !.pc = "done",
                             !.events = <<CallEvent("remove", 0, deleted)>>,
                             !.err = IF deleted THEN None ELSE "remove"]
               /\ cstate' = IF deleted THEN "absent" ELSE cstate
    /\ RunFrame

\* the entry `latest` of a destination base: as a name it sorts after every
\* generation name, which begins with a digit
LatestEntry == MaxClock + 1

\* the entries of a directory in name order, as os.ReadDir lists them
RECURSIVE InNameOrder(_)
InNameOrder(names) ==
    IF names = {} THEN <<>>
    ELSE LET least == CHOOSE n \in names : \A o \in names : n <= o
         IN  <<least>> \o InNameOrder(names \ {least})

\* the subdirectories of a destination base and its `latest` pointer
ReadDir(d) ==
    InNameOrder({t \in Timestamps : gens[d][t] # NoDir}
                \cup (IF latest[d] # NoLatest THEN {LatestEntry} ELSE {}))

\* a name already collected is not collected again
SeenNever(name, acc) == FALSE
Seen(name, acc) == \E i \in DOMAIN acc : acc[i] = name

\* the entries of one destination base are added to the names collected
RECURSIVE Collect(_, _)
Collect(entries, acc) ==
    IF entries = <<>> THEN acc
    ELSE IF Head(entries) = LatestEntry \/ Seen(Head(entries), acc)
    THEN Collect(Tail(entries), acc)
    ELSE Collect(Tail(entries), Append(acc, Head(entries)))

\* the loop over the server's steps: the backup-typed ones of the form
\* sourcePath:destinationBase contribute their destination base
RECURSIVE CollectSteps(_, _)
CollectSteps(cmds, acc) ==
    IF cmds = <<>> THEN acc
    ELSE IF Head(cmds).type = "backup" /\ WellFormed(Head(cmds))
    THEN CollectSteps(Tail(cmds), Collect(ReadDir(DestOf(Head(cmds))), acc))
    ELSE CollectSteps(Tail(cmds), acc)

\* a name is put into a list sorted descending, before the first name it
\* is not less than
RECURSIVE InsertDescending(_, _)
InsertDescending(name, sorted) ==
    IF sorted = <<>> THEN <<name>>
    ELSE IF name >= Head(sorted) THEN <<name>> \o sorted
    ELSE <<Head(sorted)>> \o InsertDescending(name, Tail(sorted))

RECURSIVE SortDescending(_)
SortDescending(names) ==
    IF names = <<>> THEN <<>>
    ELSE InsertDescending(Head(names), SortDescending(Tail(names)))

\* Manager.ListBackupGenerations
ListBackupGenerations == SortDescending(CollectSteps(server.backup, <<>>))

\* a call of ListBackupGenerations returns
ListBackupGenerationsReturn ==
    /\ run.op = "list" /\ run.pc = "call"
    /\ run' = [run EXCEPT !.pc = "done", !.result = ListBackupGenerations]
    /\ UNCHANGED cstate
    /\ RunFrame

(***************************************************************************)
(* internal/discord: BotManager.SyncBots, called by runBotManager on       *)
(* every tick of its ticker                                                *)
(***************************************************************************)
\* the goroutine of runBotManager
BotManager == "g1"

BotTokens == {"tokA", "tokB"}

\* cfg.Servers of version v as SyncBots reads it: server -> its Discord
\* settings. Successive saves move mc1 to another channel and bot token.
ServersOf(v) ==
    IF v \in {ZeroConfig, Garbage} THEN [n \in {} |-> 0]
    ELSE IF v % 2 = 1
    THEN [n \in {"mc1"} |-> [Channel |-> "ch1", Token |-> "tokA"]]
    ELSE [n \in {"mc1"} |-> [Channel |-> "ch2", Token |-> "tokB"]]

\* the loop over cfg.Servers: channel -> server, as pairs
newChannelToServer(servers) ==
    {<<servers[n].Channel, n>> : n \in {m \in DOMAIN servers : servers[m].Channel # ""}}

\* ... and the bot tokens in use
activeTokens(servers) ==
    {servers[n].Token : n \in {m \in DOMAIN servers : servers[m].Token # ""}}

\* NewBotManager: empty maps and the zero time
NoBots == [ChannelUpdatedAt |-> 0, ChannelToServer |-> {},
           Sessions |-> [t \in BotTokens |-> "absent"],
           ActiveForwarders |-> [n \in {} |-> 0], up |-> FALSE]

\* the frame of the steps SyncBots takes after its Get
BotsFrame ==
    /\ UNCHANGED <<file, Config, LastLoaded, mu, parsed>>
    /\ UNCHANGED lifeVars
    /\ UNCHANGED <<match, check, access, disk, req, attach, run, tails>>

\* SyncBots: `cfg := m.Config.Get()`
SyncBotsGet ==
    /\ gr[BotManager].pc = "idle"
    /\ GetBegin(BotManager)

\* `needsUpdate := m.ChannelUpdatedAt.Before(m.Config.LastLoaded)`
NeedsUpdate(updatedAt, lastLoaded) == updatedAt < lastLoaded

\* SyncBots: the needsUpdate test; `if !needsUpdate { return }`
SyncBotsCheck ==
    /\ gr[BotManager].pc = "done"
    /\ gr[BotManager].op = "get"
    /\ gr' = [gr EXCEPT ![BotManager].pc =
                 IF NeedsUpdate(bots.ChannelUpdatedAt, LastLoaded)
                 THEN "sb_mark" ELSE "idle"]
    /\ UNCHANGED bots
    /\ BotsFrame

\* SyncBots: `m.ChannelUpdatedAt = m.Config.LastLoaded`
SyncBotsMark ==
    /\ gr[BotManager].pc = "sb_mark"
    /\ bots' = [bots EXCEPT !.ChannelUpdatedAt = LastLoaded]
    /\ gr' = [gr EXCEPT ![BotManager].pc = "sb_map"]
    /\ BotsFrame

\* SyncBots: `m.ChannelToServer = newChannelToServer`, built from cfg
SyncBotsMap ==
    /\ gr[BotManager].pc = "sb_map"
    /\ bots' = [bots EXCEPT !.ChannelToServer =
                   newChannelToServer(ServersOf(gr[BotManager].got.Servers))]
    /\ gr' = [gr EXCEPT ![BotManager].pc = "sb_open"]
    /\ BotsFrame

\* `shouldStart := !exists; if exists && session == nil { shouldStart = true }`
shouldStart(session) == session \in {"absent", "nil"}

\* dg.Open(): the session, or nil `as a retry target` when it fails
Opened(up) == IF up THEN "open" ELSE "nil"

\* SyncBots: the loop over activeTokens that opens the missing sessions
SyncBotsOpen ==
    /\ gr[BotManager].pc = "sb_open"
    /\ bots' = [bots EXCEPT !.Sessions =
                   [t \in BotTokens |->
                       IF /\ t \in activeTokens(ServersOf(gr[BotManager].got.Servers))
                          /\ shouldStart(bots.Sessions[t])
                       THEN Opened(bots.up) ELSE bots.Sessions[t]]]
    /\ gr' = [gr EXCEPT ![BotManager].pc = "sb_close"]
    /\ BotsFrame

\* SyncBots: the sessions of tokens no longer configured are closed and deleted
SyncBotsClose ==
    /\ gr[BotManager].pc = "sb_close"
    /\ bots' = [bots EXCEPT !.Sessions =
                   [t \in BotTokens |->
                       IF t \in activeTokens(ServersOf(gr[BotManager].got.Servers))
                       THEN bots.Sessions[t] ELSE "absent"]]
    /\ gr' = [gr EXCEPT ![BotManager].pc = "idle"]
    /\ BotsFrame

\* Discord starts to accept the bots' connections
GatewayUp ==
    /\ ~bots.up
    /\ bots' = [bots EXCEPT !.up = TRUE]
    /\ UNCHANGED cfgVars
    /\ UNCHANGED lifeVars
    /\ UNCHANGED <<match, check, access, disk, req, attach, run, tails>>

(***************************************************************************)
(* internal/discord: BotManager.SyncLogForwarders, called by               *)
(* runLogForwarderManager on every tick, and tailContainerLogs             *)
(***************************************************************************)
\* no tailContainerLogs goroutine started yet
NoTails == <<>>

\* `go m.tailContainerLogs(ctx, serverName, ...)` with a fresh context
NewTail(serverName) == [server |-> serverName, ctxDone |-> FALSE, pc |-> "top"]

\* the first loop of SyncLogForwarders: a goroutine is started for every
\* server of the snapshot that has no entry in ActiveForwarders, and its
\* cancel function stored there (here: the index of the goroutine)
RECURSIVE StartMissing(_, _, _)
StartMissing(names, af, ts) ==
    IF names = {} THEN [af |-> af, ts |-> ts]
    ELSE LET n == CHOOSE x \in names : TRUE
         IN  IF n \in DOMAIN af THEN StartMissing(names \ {n}, af, ts)
             ELSE StartMissing(names \ {n},
                               [m \in DOMAIN af \cup {n} |->
                                   IF m = n THEN Len(ts) + 1 ELSE af[m]],
                               Append(ts, NewTail(n)))

\* the second loop: cancel() and delete for every entry whose server is not
\* in the snapshot
CancelStale(activeServers, af, ts) ==
    [af |-> [n \in DOMAIN af \cap activeServers |-> af[n]],
     ts |-> [i \in DOMAIN ts |->
               IF \E n \in DOMAIN af \ activeServers : af[n] = i
               THEN [ts[i] EXCEPT !.ctxDone = TRUE] ELSE ts[i]]]

\* the frame of the log forwarding steps
TailsFrame ==
    /\ UNCHANGED cfgVars
    /\ UNCHANGED lifeVars
    /\ UNCHANGED <<match, check, access, disk, req, attach, run>>

\* SyncLogForwarders; activeServers are the servers of the snapshot
\* cfg := m.Config.Get() that have both LogSetting and Webhook
SyncLogForwarders(activeServers) ==
    LET started == StartMissing(activeServers, bots.ActiveForwarders, tails)
        synced == CancelStale(activeServers, started.af, started.ts)
    IN  /\ Len(started.ts) <= MaxTails
        /\ bots' = [bots EXCEPT !.ActiveForwarders = synced.af]
        /\ tails' = synced.ts
        /\ TailsFrame

\* tailContainerLogs, top of the loop: `case <-ctx.Done(): return`
TailTop(i) ==
    /\ tails[i].pc = "top"
    /\ tails' = [tails EXCEPT ![i].pc = IF tails[i].ctxDone THEN "exited"
                                        ELSE "connect"]
    /\ UNCHANGED bots
    /\ TailsFrame

\* ContainerInspect(ctx, ...) and ContainerLogs(ctx, ...): an error, which a
\* context that is done always gives, leads to time.Sleep
TailConnect(i) ==
    /\ tails[i].pc = "connect"
    /\ \E ok \in BOOLEAN :
          tails' = [tails EXCEPT ![i].pc = IF ok /\ ~tails[i].ctxDone THEN "scan"
                                            ELSE "sleep"]
    /\ UNCHANGED bots
    /\ TailsFrame

\* the scanner loop: a line is read and forwarded, or with the context done
\* the goroutine returns; or the stream ends and the goroutine sleeps
TailScan(i) ==
    /\ tails[i].pc = "scan"
    /\ \E line \in BOOLEAN :
          tails' = [tails EXCEPT ![i].pc =
                       IF ~line THEN "sleep"
                       ELSE IF tails[i].ctxDone THEN "exited" ELSE "scan"]
    /\ UNCHANGED bots
    /\ TailsFrame

\* time.Sleep is over: back to the top of the loop
TailSleep(i) ==
    /\ tails[i].pc = "sleep"
    /\ tails' = [tails EXCEPT ![i].pc = "top"]
    /\ UNCHANGED bots
    /\ TailsFrame

(***************************************************************************)
(* Specifications                                                          *)
(***************************************************************************)
InitConfig ==
    /\ file = [exists |-> TRUE, valid |-> TRUE, ver |-> 1, mtime |-> 1]
    /\ Config = [Users |-> ZeroConfig, Servers |-> ZeroConfig]
    /\ LastLoaded = 0
    /\ mu = [writer |-> None, readers |-> {}]
    /\ parsed = {}
    /\ gr = [p \in Readers |->
                [pc |-> "idle", op |-> None, inGet |-> FALSE, newCfg |-> ZeroConfig,
                 got |-> [Users |-> ZeroConfig, Servers |-> ZeroConfig],
                 failed |-> FALSE]]

InitDisk ==
    /\ now = 1
    /\ srcData = 1
    /\ gens = [d \in DestBases |-> [t \in Timestamps |-> NoDir]]
    /\ latest = [d \in DestBases |-> NoLatest]
    /\ inv = [p \in Handlers |-> Idle]

\* no front-end request
InitFront ==
    /\ access = [Users |-> [u \in {} |-> NoPerms], Servers |-> {}]
    /\ disk = [s \in ServerNames |-> {}]
    /\ req = NoReq
    /\ attach = NoAttach
    /\ run = NoRun
    /\ bots = NoBots
    /\ tails = NoTails

\* no permission check made
InitAccess ==
    /\ match = NoMatch
    /\ check = NoCheck
    /\ InitFront

\* no container yet
InitEngine ==
    /\ cstate = "absent"
    /\ cid = 0
    /\ lastStart = NoStart

\* a container that Start created and that has since stopped
InitStopped ==
    /\ cstate = "created"
    /\ cid = 1
    /\ lastStart = NoStart

NextConfig ==
    \/ \E p \in Readers :
          \/ GetBegin(p)
          \/ GetStat(p)
          \/ GetRelock(p)
          \/ GetCopyUsers(p)
          \/ GetCopyServers(p)
          \/ ReloadBegin(p)
          \/ ReloadLock(p)
          \/ ReloadOpen(p)
          \/ ReloadDecode(p)
          \/ ReloadSetUsers(p)
          \/ ReloadSetServers(p)
          \/ ReloadStat(p)
    \/ FileWrite
    \/ FileDelete

InitCfgStore ==
    /\ InitConfig
    /\ InitDisk
    /\ InitAccess
    /\ InitEngine
    /\ server = [ok |-> TRUE, image |-> TRUE, backup |-> BackupReadme]

\* the configuration store under concurrent readers and file edits
SpecConfig == InitCfgStore /\ [][NextConfig]_vars

Init ==
    /\ InitConfig
    /\ InitDisk
    /\ InitAccess
    /\ InitEngine
    /\ server \in Servers

Next ==
    \/ Start
    \/ ContainerExit
    \/ ContainerRun
    \/ ContainerMade
    \/ ContainerGone

\* Manager.Start against the engine
Spec == Init /\ [][Next]_vars

BackupStep(p) ==
    \/ BackupAttach(p)
    \/ BackupSleep(p)
    \/ BackupSkipMalformed(p)
    \/ BackupCopy(p)
    \/ BackupRsyncOk(p)
    \/ BackupRsyncFail(p)
    \/ BackupRemoveLatest(p)
    \/ BackupSymlink(p)
    \/ BackupEnd(p)

RestoreStep(p) ==
    \/ RestoreSkip(p)
    \/ RestoreCopy(p)
    \/ RestoreRsyncOk(p)
    \/ RestoreRsyncFail(p)
    \/ RestoreEnd(p)

InitBackup ==
    /\ InitConfig
    /\ InitDisk
    /\ InitAccess
    /\ InitStopped
    /\ server \in {s \in Servers : s.image /\ s.backup # BackupTwoDest}

NextBackup ==
    \/ \E p \in Handlers :
          \/ BackupBegin(p)
          \/ BackupStep(p)
    \/ Tick
    \/ WorldChange
    \/ ContainerRun

\* Backup invocations of two handler goroutines that overlap in time
SpecBackup == InitBackup /\ [][NextBackup]_vars

InitSeq ==
    /\ InitConfig
    /\ InitDisk
    /\ InitAccess
    /\ InitStopped
    /\ server \in {s \in Servers : s.ok => s.image}

NextSeq ==
    \/ BackupBegin("h1")
    \/ RestoreBegin("h1")
    \/ BackupStep("h1")
    \/ RestoreStep("h1")
    \/ Tick
    \/ WorldChange
    \/ ContainerExit
    \/ ContainerRun

\* Backup and Restore invocations of one handler goroutine, one after the other
SpecSeq == InitSeq /\ [][NextSeq]_vars

InitCancel ==
    /\ InitConfig
    /\ InitDisk
    /\ InitAccess
    /\ InitStopped
    /\ server \in {s \in Servers : s.image}

NextCancel ==
    \/ BackupBegin("h1")
    \/ RestoreBegin("h1")
    \/ BackupStep("h1")
    \/ RestoreStep("h1")
    \/ CtxDone("h1")
    \/ Tick

\* Backup and Restore invocations whose context may become done at any point
SpecCancel == InitCancel /\ [][NextCancel]_vars

InitRace ==
    /\ InitConfig
    /\ InitDisk
    /\ InitAccess
    /\ InitStopped
    /\ server \in {s \in Servers : s.image}

NextRace ==
    \/ BackupBegin("h1")
    \/ RestoreBegin("h1")
    \/ BackupStep("h1")
    \/ RestoreStep("h1")
    \/ Start

\* Backup and Restore invocations of one handler goroutine while another
\* goroutine calls Manager.Start for the same server
SpecRace == InitRace /\ [][NextRace]_vars


InitMatch ==
    /\ InitConfig
    /\ InitDisk
    /\ InitEngine
    /\ server = [ok |-> TRUE, image |-> TRUE, backup |-> BackupReadme]
    /\ match \in {[userPerm |-> u, required |-> r, pc |-> "call", result |-> FALSE] :
                      u \in Tokens, r \in Tokens}
    /\ check = NoCheck
    /\ InitFront

NextMatch == MatchReturn

\* matchRecursive on every pair of tokens of at most MaxSegs segments
SpecMatch == InitMatch /\ [][NextMatch]_vars

\* the tokens granted in the permission maps drawn, and the tokens required
Granted == {Star, PermContainerRead, PermContainerExecute, PermContainerStart,
            Join(<<"container", "*">>)}
Required == {PermContainerRead, PermContainerWrite, PermContainerStart,
             PermContainerRestore, PermFileWrite}

\* lists of at most MaxGrants granted tokens
GrantLists == UNION {[1 .. n -> Granted] : n \in 0 .. MaxGrants}

\* permission maps with a subset of the keys "mc1" and "*"
PermMaps == {Perms(m) : m \in UNION {[ks -> GrantLists] : ks \in SUBSET {"mc1", "*"}}}

InitPerm ==
    /\ InitConfig
    /\ InitDisk
    /\ InitEngine
    /\ server = [ok |-> TRUE, image |-> TRUE, backup |-> BackupReadme]
    /\ match = NoMatch
    /\ check \in {[perms |-> m, server |-> n, required |-> r,
                    pc |-> "call", result |-> FALSE] :
                      m \in PermMaps \cup {NoPerms}, n \in ServerNames, r \in Required}
    /\ InitFront

NextPerm == HasPermissionReturn

\* HasPermission on the permission maps, server names and required tokens drawn
SpecPerm == InitPerm /\ [][NextPerm]_vars

\* the virtual paths a client names: the root, a server, a mount, a file
VPaths == {Abs(<<>>)} \cup {Abs(<<s>>) : s \in ServerNames}
          \cup {Abs(<<s, m>>) : s \in ServerNames, m \in MountNames \cup {"etc"}}
          \cup {Abs(<<s, m, f>>) :
                   s \in ServerNames, m \in MountNames, f \in FileNames}

\* the tokens granted to the session's user under one key
FileGrants == {<<>>, <<PermContainerRead>>, <<PermFileWrite>>,
               <<PermContainerRead, PermFileWrite>>}

\* cfg.Users: the user is missing, or holds FileGrants under keys of the map
FileUsers == {[u \in {} |-> NoPerms]}
             \cup {[u \in UserNames |-> Perms(m)] :
                      m \in UNION {[ks -> FileGrants] : ks \in SUBSET PermKeys}}

\* the requests of one SFTP or WebDAV session
FileRequests ==
    {[front |-> "sftp", method |-> m, user |-> "alice", path |-> p,
      target |-> Abs(<<>>), pc |-> "pending", err |-> None, maps |-> <<>>] :
         m \in {"Get", "Put"} \cup (SftpCmds \ {"Rename"}), p \in VPaths}
    \cup {[front |-> "webdav", method |-> m, user |-> "alice", path |-> p,
           target |-> Abs(<<>>), pc |-> "pending", err |-> None, maps |-> <<>>] :
         m \in {"Mkdir", "OpenFileWrite", "OpenFileRead", "RemoveAll", "Stat"},
         p \in VPaths}
    \cup {[front |-> f, method |-> "Rename", user |-> "alice", path |-> p,
           target |-> t, pc |-> "pending", err |-> None, maps |-> <<>>] :
         f \in {"sftp", "webdav"}, p \in VPaths, t \in VPaths}

InitFiles ==
    /\ InitConfig
    /\ InitDisk
    /\ InitEngine
    /\ server = [ok |-> TRUE, image |-> TRUE, backup |-> BackupReadme]
    /\ match = NoMatch
    /\ check = NoCheck
    /\ access \in {[Users |-> us, Servers |-> ss] :
                      us \in FileUsers, ss \in {ServerNames, {"mc1"}}}
    /\ disk \in [ServerNames -> SUBSET FileNames]
    /\ req \in FileRequests
    /\ attach = NoAttach
    /\ run = NoRun
    /\ bots = NoBots
    /\ tails = NoTails

NextFiles ==
    \/ SftpFileread
    \/ SftpFilewrite
    \/ SftpFilecmd
    \/ WebdavMkdir
    \/ WebdavOpenFileWrite
    \/ WebdavOpenFileRead
    \/ WebdavRemoveAll
    \/ WebdavRename
    \/ WebdavStat

\* one request of an SFTP or WebDAV session against the virtual file system
SpecFiles == InitFiles /\ [][NextFiles]_vars

\* the tokens granted to the front end's user under one key
FrontGrants == {<<>>, <<PermContainerRestore>>, <<PermContainerStart>>,
                <<PermContainerExecute>>, <<PermHttpExecute>>, <<Star>>}

\* cfg.Users: the user is missing, or holds FrontGrants under keys of the map
FrontUsers == {[u \in {} |-> NoPerms]}
              \cup {[u \in UserNames |-> Perms(m)] :
                       m \in UNION {[ks -> FrontGrants] : ks \in SUBSET PermKeys}}

\* the generation a restore request names: none, or a directory name
Generations == {"", "20260101-000000"}

\* the lifecycle requests of the HTTP API and of the bot
FrontRequests ==
    {[front |-> f, action |-> a, user |-> "alice", server |-> n, generation |-> g,
      pc |-> "pending", allowed |-> FALSE, called |-> None] :
         f \in {"http", "bot"}, a \in Actions, n \in ServerNames, g \in Generations}
    \cup {[front |-> "http_restore", action |-> "restore", user |-> "alice",
           server |-> n, generation |-> g, pc |-> "pending", allowed |-> FALSE,
           called |-> None] : n \in ServerNames, g \in Generations}

InitFrontEnd ==
    /\ InitConfig
    /\ InitDisk
    /\ InitEngine
    /\ server = [ok |-> TRUE, image |-> TRUE, backup |-> BackupReadme]
    /\ match = NoMatch
    /\ check = NoCheck
    /\ access \in {[Users |-> us, Servers |-> ServerNames] : us \in FrontUsers}
    /\ disk = [s \in ServerNames |-> {}]
    /\ req \in FrontRequests
    /\ attach = NoAttach
    /\ run = NoRun
    /\ bots = NoBots
    /\ tails = NoTails

NextFrontEnd ==
    \/ HttpAction
    \/ HttpRestoreAction
    \/ BotAction

\* one lifecycle request through the HTTP API or the bot
SpecFrontEnd == InitFrontEnd /\ [][NextFrontEnd]_vars

InitAttach ==
    /\ InitConfig
    /\ InitDisk
    /\ InitEngine
    /\ server = [ok |-> TRUE, image |-> TRUE, backup |-> BackupReadme]
    /\ InitAccess

NextAttach ==
    \/ \E t \in Terminals : TerminalLock(t)
    \/ \E t \in Terminals : TerminalRejected(t)
    \/ \E t \in Terminals : TerminalAttach(t)
    \/ \E t \in Terminals : TerminalClose(t)
    \/ \E t \in Terminals : TerminalUnlock(t)
    \/ \E p \in Senders : SendCommandAttach(p)
    \/ \E p \in Senders : SendCommandWrite(p)
    \/ \E p \in Senders : SendCommandClose(p)

\* terminals attaching and SendCommand callers, interleaved
SpecAttach == InitAttach /\ [][NextAttach]_vars

\* the segment lists of the paths handed to MapPath: clean ones, and ones
\* with "." and ".." segments
SegLists == {<<>>, <<".">>, <<"..">>}
            \cup {<<s>> : s \in ServerNames}
            \cup {<<s, m>> : s \in ServerNames, m \in MountNames \cup {"etc"}}
            \cup {<<s, m, f>> : s \in ServerNames, m \in MountNames, f \in FileNames}
            \cup {<<s, ".", m, f>> : s \in ServerNames, m \in MountNames, f \in FileNames}
            \cup {<<s, "..", s, m>> : s \in ServerNames, m \in MountNames}
            \cup UNION {{<<s>> \o e : e \in Filelist(s, TRUE)} : s \in ServerNames}

\* the path strings: each list with and without the leading "/"
PathStrings == {Abs(l) : l \in SegLists} \cup {Rel(l) : l \in SegLists}

InitMapPath ==
    /\ InitConfig
    /\ InitDisk
    /\ InitEngine
    /\ server = [ok |-> TRUE, image |-> TRUE, backup |-> BackupReadme]
    /\ match = NoMatch
    /\ check = NoCheck
    /\ access \in {[Users |-> us, Servers |-> ss] :
                      us \in FileUsers, ss \in {ServerNames, {"mc1"}}}
    /\ disk = [s \in ServerNames |-> FileNames]
    /\ req \in {[front |-> "vfs", method |-> "MapPath", user |-> "alice", path |-> p,
                 target |-> Abs(<<>>), pc |-> "pending", err |-> None,
                 maps |-> <<>>] : p \in PathStrings}
    /\ attach = NoAttach
    /\ run = NoRun
    /\ bots = NoBots
    /\ tails = NoTails

NextMapPath == MapPathReturn

\* Handler.MapPath on the path strings drawn
SpecMapPath == InitMapPath /\ [][NextMapPath]_vars

InitEngineOps ==
    /\ InitConfig
    /\ InitDisk
    /\ InitAccess
    /\ cstate \in {"absent", "created", "running"}
    /\ cid = 1
    /\ lastStart = NoStart
    /\ server = [ok |-> TRUE, image |-> TRUE, backup |-> BackupReadme]

NextEngineOps ==
    \/ StopBegin
    \/ StopStepBegin
    \/ StopStepEnd
    \/ StopEngine
    \/ KillStop
    \/ KillSignal
    \/ Remove
    \/ ContainerExit
    \/ ContainerRun

\* Stop, Kill and Remove invocations of one handler goroutine against the
\* engine
SpecEngineOps == InitEngineOps /\ [][NextEngineOps]_vars

\* the destination bases after some Backups: generation directories, and a
\* `latest` pointer that is missing or points at one of them
InitList ==
    /\ InitConfig
    /\ InitEngine
    /\ now = MaxClock
    /\ srcData = 1
    /\ inv = [p \in Handlers |-> Idle]
    /\ match = NoMatch
    /\ check = NoCheck
    /\ access = [Users |-> [u \in {} |-> NoPerms], Servers |-> {}]
    /\ disk = [s \in ServerNames |-> {}]
    /\ req = NoReq
    /\ attach = NoAttach
    /\ server \in {s \in Servers : s.ok}
    /\ gens \in [DestBases -> [Timestamps -> {NoDir, 1}]]
    /\ latest \in {l \in [DestBases -> Timestamps \cup {NoLatest}] :
                      \A d \in DestBases :
                         l[d] # NoLatest => gens[d][l[d]] # NoDir}
    /\ run = [NoRun EXCEPT !.op = "list", !.pc = "call"]
    /\ bots = NoBots
    /\ tails = NoTails

NextList == ListBackupGenerationsReturn

\* ListBackupGenerations on the destination bases drawn
SpecList == InitList /\ [][NextList]_vars

\* the Get and Reload steps goroutine p takes once it is inside Get
GetStep(p) ==
    \/ GetStat(p)
    \/ GetRelock(p)
    \/ GetCopyUsers(p)
    \/ GetCopyServers(p)
    \/ ReloadLock(p)
    \/ ReloadOpen(p)
    \/ ReloadDecode(p)
    \/ ReloadSetUsers(p)
    \/ ReloadSetServers(p)
    \/ ReloadStat(p)

\* what the goroutine of runBotManager does
BotManagerStep ==
    \/ SyncBotsGet
    \/ GetStep(BotManager)
    \/ SyncBotsCheck
    \/ SyncBotsMark
    \/ SyncBotsMap
    \/ SyncBotsOpen
    \/ SyncBotsClose

\* what a goroutine that serves requests does with the configuration
OtherStep ==
    \/ GetBegin("g2")
    \/ GetStep("g2")

InitBots ==
    /\ InitConfig
    /\ InitDisk
    /\ InitAccess
    /\ InitEngine
    /\ server = [ok |-> TRUE, image |-> TRUE, backup |-> BackupReadme]

NextBots ==
    \/ BotManagerStep
    \/ OtherStep
    \/ FileWrite
    \/ GatewayUp

\* SyncBots on every tick while another goroutine calls Get and the file is
\* edited: the ticker keeps firing and no goroutine is starved of the locks
SpecBots ==
    /\ InitBots
    /\ [][NextBots]_vars
    /\ SF_vars(BotManagerStep)
    /\ SF_vars(OtherStep)

InitForwarders ==
    /\ InitConfig
    /\ InitDisk
    /\ InitAccess
    /\ InitEngine
    /\ server = [ok |-> TRUE, image |-> TRUE, backup |-> BackupReadme]

NextForwarders ==
    \/ \E activeServers \in SUBSET ServerNames : SyncLogForwarders(activeServers)
    \/ \E i \in DOMAIN tails : TailTop(i)
    \/ \E i \in DOMAIN tails : TailConnect(i)
    \/ \E i \in DOMAIN tails : TailScan(i)
    \/ \E i \in DOMAIN tails : TailSleep(i)

\* SyncLogForwarders ticks on changing configurations, and the goroutines
\* they start
SpecForwarders == InitForwarders /\ [][NextForwarders]_vars

(***************************************************************************)
(* Claims                                                                  *)
(***************************************************************************)
Called(c) == \E i \in DOMAIN lastStart.calls : lastStart.calls[i] = c
StartOnManaged == lastStart.ran /\ lastStart.managed

RestoreCalled(p) ==
    /\ inv'[p].op = "restore"
    /\ inv'[p].runs = inv[p].runs + 1

\* C3: Restore invoked while the server's container is running returns the
\* conflict error and launches no copy (it goes no further than the guard).
C3_RestoreRefusedWhileRunning ==
    [][\A p \in Handlers :
          (RestoreCalled(p) /\ server.ok /\ cstate = "running") =>
              /\ inv'[p].pc = "done"
              /\ inv'[p].result = "conflict"]_vars

\* a step in which a restore copy of handler p exits 0
RestoreCopied(p) ==
    /\ inv[p].pc = "r_rsync"
    /\ inv'[p].pc = "r_loop"
    /\ inv'[p].failed = inv[p].failed

\* C4: when a copy of Restore(server, g) succeeds and destBase/g exists, the
\* source path mirrors destBase/g, the generation the caller named.
C4_RestoreMirrorsNamedGeneration ==
    [][\A p \in Handlers :
          (/\ RestoreCopied(p)
           /\ inv[p].gen \in Timestamps
           /\ gens[inv[p].dest][inv[p].gen] \in Contents) =>
              srcData' = gens[inv[p].dest][inv[p].gen]]_vars

Returned(p) == gr[p].pc = "done" /\ gr[p].op = "get"

\* C5: every Config Get() returns holds one version in all its fields, a version
\* json.Decode accepted as a whole (or the zero Config before the first load).
C5_GetNeverTorn ==
    \A p \in Readers :
        Returned(p) =>
            /\ gr[p].got.Users = gr[p].got.Servers
            /\ gr[p].got.Users \in parsed \cup {ZeroConfig}

\* C5 witness: a Get has returned version 1 whole while another goroutine's Reload
\* has written Users of version 2 and not yet Servers
C5_Witness ==
    \E p, q \in Readers :
        /\ Returned(p)
        /\ gr[p].got = [Users |-> 1, Servers |-> 1]
        /\ gr[q].pc = "rl_servers"
        /\ Config.Users # Config.Servers

\* C6: a Reload that cannot open or parse the file leaves the snapshot as it was;
\* the snapshot only ever changes to a version that parsed; and a Get whose
\* Reload failed returns the snapshot in memory, never a half-decoded value.
C6_FailedReloadKeepsSnapshot ==
    [][/\ \A p \in Readers :
             /\ (gr'[p].failed /\ ~gr[p].failed) => Config' = Config
             /\ (gr[p].pc = "get_servers" /\ gr'[p].pc = "done" /\ gr[p].failed) =>
                   /\ gr'[p].got = Config
                   /\ gr'[p].got.Users \in parsed \cup {ZeroConfig}
       /\ Config' # Config =>
             {Config'.Users, Config'.Servers} \subseteq parsed' \cup {Config.Servers}
      ]_vars

\* C6 witness: a Get whose Reload failed has returned the version loaded before
C6_Witness ==
    \E p \in Readers :
        /\ Returned(p)
        /\ gr[p].failed
        /\ gr[p].got = Config
        /\ gr[p].got.Users = 1
        /\ file.ver = 2

\* a step in which the copy of handler p's Backup step fails
BackupCopyFailed(p) ==
    /\ inv[p].pc = "b_rsync"
    /\ inv'[p].failed # inv[p].failed

\* a step in which handler p's Backup step passes os.Symlink
BackupLinked(p) ==
    /\ inv[p].pc = "b_symlink"
    /\ inv'[p].pc = "b_loop"

BackupLaunched(p) ==
    /\ inv[p].pc = "b_loop"
    /\ inv'[p].pc = "b_rsync"

\* C8: no Backup writes into a generation directory that a copy has finished.
C8_GenerationWrittenOnce ==
    [][\A p \in Handlers :
          BackupLaunched(p) => gens[inv'[p].dest][inv[p].ts] \notin Contents]_vars

\* a step in which a Backup of handler p that copied something returns nil
BackupSucceeded(p) ==
    /\ inv[p].pc = "b_loop"
    /\ inv'[p].pc = "done"
    /\ inv'[p].result = "ok"
    /\ inv[p].attempted # {}

\* C9: when a second Backup in succession returns nil, its generation directory
\* is another one than the first's and latest references it.
C9_TwoBackupsTwoGenerations ==
    [][\A p \in Handlers :
          (BackupSucceeded(p) /\ inv[p].prevOk # 0) =>
              /\ inv[p].ts # inv[p].prevOk
              /\ \A i \in inv[p].attempted :
                    latest[DestOf(server.backup[i])] = inv[p].ts]_vars

BackupReturned(p) == inv[p].pc = "done" /\ inv[p].op = "backup" /\ server.ok
BackupTyped == {i \in DOMAIN server.backup : server.backup[i].type = "backup"}

\* C10 (as stated): Backup attempts every backup-typed step, returns the
\* aggregate error if a step failed and nil only if none failed.
C10_EveryBackupStepAttempted ==
    \A p \in Handlers :
        BackupReturned(p) =>
            /\ inv[p].attempted = BackupTyped
            /\ inv[p].result = "partial" <=> inv[p].failed # {}
            /\ inv[p].result = "ok" <=> inv[p].failed = {}

\* C10 (amended): Backup attempts every backup-typed step whose argument has the
\* form src:destBase, also after an earlier step failed (a backup-typed step
\* whose argument has no ":" is skipped without an error); it returns the one
\* aggregate error if an attempted copy failed and nil only if none failed.
C10_EveryWellFormedStepAttempted ==
    \A p \in Handlers :
        BackupReturned(p) =>
            /\ inv[p].attempted = {i \in BackupTyped : WellFormed(server.backup[i])}
            /\ inv[p].result = "partial" <=> inv[p].failed # {}
            /\ inv[p].result = "ok" <=> inv[p].failed = {}

\* C10 witness: the first copy failed, the second was still made, and Backup
\* returned the aggregate error
C10_Witness ==
    \E p \in Handlers :
        /\ BackupReturned(p)
        /\ inv[p].failed = {1}
        /\ inv[p].attempted = {1, 2}
        /\ gens["/bk2"][inv[p].ts] \in Contents
        /\ inv[p].result = "partial"

\* a step in which handler p calls Backup
BackupCalled(p) ==
    /\ inv'[p].op = "backup"
    /\ inv'[p].runs = inv[p].runs + 1

\* a step of the Backup invocation handler p is in
BackupStepped(p) ==
    /\ inv[p].op = "backup"
    /\ inv[p].pc # "done"
    /\ inv'[p] # inv[p]

\* C11 (as stated): a Backup called on a container that is not running sends no
\* attach command, performs no sleep and still executes every backup-typed step.
C11_StoppedBackupSkipsAttachSleep ==
    [][\A p \in Handlers :
          /\ (BackupCalled(p) /\ server.ok /\ cstate # "running") =>
                ~inv'[p].isRunning
          /\ (BackupStepped(p) /\ ~inv[p].isRunning) =>
                /\ inv'[p].sent = {}
                /\ inv'[p].slept = {}
                /\ inv'[p].pc = "done" => inv'[p].attempted = BackupTyped]_vars

\* C11 (amended): a Backup called on a container that is not running sends no
\* attach command, performs no sleep and still executes every backup-typed step
\* whose argument has the form src:destBase.
C11_StoppedBackupCopiesWellFormed ==
    [][\A p \in Handlers :
          /\ (BackupCalled(p) /\ server.ok /\ cstate # "running") =>
                ~inv'[p].isRunning
          /\ (BackupStepped(p) /\ ~inv[p].isRunning) =>
                /\ inv'[p].sent = {}
                /\ inv'[p].slept = {}
                /\ inv'[p].pc = "done" =>
                      inv'[p].attempted =
                          {i \in BackupTyped : WellFormed(server.backup[i])}]_vars

\* C11 witness: a Backup of the attach, sleep, backup sequence has returned on a
\* stopped container with the copy made and nothing sent or slept
C11_Witness ==
    \E p \in Handlers :
        /\ BackupReturned(p)
        /\ server.backup = BackupReadme
        /\ cstate = "created"
        /\ ~inv[p].isRunning
        /\ inv[p].sent = {}
        /\ inv[p].slept = {}
        /\ inv[p].attempted = {3}
        /\ gens["/bk1"][inv[p].ts] \in Contents

Matched == match.pc = "done"

\* C16: matches("*", r) for every r; matches(t, t) for every t;
\* matches("container.*", "container.execute.start");
\* not matches("container.execute", "container.execute.start");
\* not matches("container.execute.start", "container.execute").
C16_MatchLaws ==
    Matched =>
        /\ match.userPerm = Star => match.result
        /\ match.userPerm = match.required => match.result
        /\ (/\ match.userPerm = Join(<<"container", "*">>)
            /\ match.required = Join(<<"container", "execute", "start">>)) =>
                match.result
        /\ (/\ match.userPerm = Join(<<"container", "execute">>)
            /\ match.required = Join(<<"container", "execute", "start">>)) =>
                ~match.result
        /\ (/\ match.userPerm = Join(<<"container", "execute", "start">>)
            /\ match.required = Join(<<"container", "execute">>)) =>
                ~match.result

\* C16 witness: "container.execute" was refused for "container.execute.start"
C16_Witness ==
    /\ Matched
    /\ match.userPerm = Join(<<"container", "execute">>)
    /\ match.required = Join(<<"container", "execute", "start">>)
    /\ ~match.result

\* index of the first "*" segment of parts, 0 when there is none
FirstStar(parts) ==
    IF \E i \in DOMAIN parts : parts[i] = Star
    THEN CHOOSE i \in DOMAIN parts :
             /\ parts[i] = Star
             /\ \A j \in 1 .. i - 1 : parts[j] # Star
    ELSE 0

\* C17: a granted token without a "*" segment matches exactly the identical
\* required token; a granted token with a "*" segment matches exactly the required
\* tokens whose segments equal the granted segments ahead of its first "*".
C17_MatchIsPrefixUpToStar ==
    Matched =>
        LET u == Parts(match.userPerm)
            r == Parts(match.required)
            k == FirstStar(u)
        IN  IF k = 0
            THEN match.result <=> match.userPerm = match.required
            ELSE match.result <=>
                     \A i \in 1 .. k - 1 : i <= Len(r) /\ r[i] = u[i]

\* C17 witness: "container.execute.start" was refused for "container.execute.stop"
C17_Witness ==
    /\ Matched
    /\ match.userPerm = Join(<<"container", "execute", "start">>)
    /\ match.required = Join(<<"container", "execute", "stop">>)
    /\ ~match.result

Checked == check.pc = "done"

\* the tokens a permission map holds under key k
Held(perms, k) == {Lookup(perms, k)[i] : i \in DOMAIN Lookup(perms, k)}

\* C15: HasPermission(user, server, p) is true exactly when a token the user holds
\* under the key server or under the key "*" matches p, and false without a
\* permission map; {"*": ["container.read"]} gives container.read on every server
\* and container.write on none.
C15_HasPermissionIsKeyOrWildcard ==
    Checked =>
        /\ check.perms.nil => ~check.result
        /\ ~check.perms.nil =>
              (check.result <=>
                   \E t \in Held(check.perms, check.server) \cup Held(check.perms, "*") :
                       matchRecursive(t, check.required))
        /\ check.perms = Perms([k \in {"*"} |-> <<PermContainerRead>>]) =>
              /\ check.required = PermContainerRead => check.result
              /\ check.required = PermContainerWrite => ~check.result

\* C15 witness: {"*": ["container.read"]} gave container.read on a server the
\* map does not name
C15_Witness ==
    /\ Checked
    /\ check.perms = Perms([k \in {"*"} |-> <<PermContainerRead>>])
    /\ check.server = "mc2"
    /\ check.required = PermContainerRead
    /\ check.result

\* the session's user holds file.write for server s, under its key or "*"
HoldsFileWrite(s) == HasPermission(UserOf(access, req.user), s, PermFileWrite)

\* C12: an SFTP or WebDAV operation changes the files under a server only
\* if the acting user holds file.write for that server, for a rename both
\* on the server of the source path and on the server of the target path.
C12_WriteNeedsFileWrite ==
    [][\A s \in ServerNames : disk'[s] # disk[s] => HoldsFileWrite(s)]_vars

\* C14: a MapPath call on a path whose first segment the user has no
\* container.read for returned the permission error and did not query the
\* engine, whether or not the configuration has a server of that name.
C14_UnreadableDeniedBeforeInspect ==
    \A i \in DOMAIN req.maps :
       LET m == req.maps[i] IN
       (/\ m.path.segs # <<>>
        /\ ~HasPermission(UserOf(access, req.user), m.path.segs[1],
                          PermContainerRead))
       => m.err = ErrPermission /\ ~m.inspected

\* a known user who may read mc1 only was denied a path under mc2, which
\* the configuration does not have
C14_Witness ==
    /\ req.pc = "done" /\ req.front = "sftp" /\ req.method = "Get"
    /\ req.user \in DOMAIN access.Users
    /\ HasPermission(access.Users[req.user], "mc1", PermContainerRead)
    /\ "mc2" \notin access.Servers
    /\ Len(req.maps) = 1
    /\ req.maps[1].path = Abs(<<"mc2", "data", "f">>)
    /\ req.maps[1].err = ErrPermission
    /\ ~req.maps[1].inspected

\* the front end ran the Manager method of the action requested
Executed == req.pc = "done" /\ req.called = req.action

\* C13: a front end executes a lifecycle action a for a user on a server
\* if and only if the user holds container.execute.a for that server; a
\* restore request names its generation.
C13_ExecutesIffExecutePermission ==
    (/\ req.pc = "done"
     /\ req.front \in {"http", "http_restore", "bot"}
     /\ req.generation # "")
    => (Executed <=>
        HasPermission(UserOf(access, req.user), req.server, ExecutePerm(req.action)))

\* the consumers holding an open attach stream to container id
OpenStreams(id) == {p \in Attachers : attach.stream[p] = id}

\* C18: at any time at most one attach stream to a given container is
\* open, so no two consumers write to the same stdin stream at once.
C18_OneAttachStreamPerContainer ==
    \A id \in ServerNames : Cardinality(OpenStreams(id)) <= 1

\* C19: Restore called with the empty generation returns an error at once,
\* before the container inspect and before any file access.
C19_EmptyGenerationFailsFast ==
    [][\A p \in Handlers :
          (RestoreCalled(p) /\ inv'[p].gen = 0) =>
              /\ inv'[p].pc = "done"
              /\ inv'[p].result \notin {None, "ok"}]_vars

\* a Restore of handler p is at a well-formed backup step whose
\* destBase/<generation> directory does not exist
AtMissingGeneration(p) ==
    /\ inv[p].op = "restore"
    /\ AtCmd(p, "r_loop")
    /\ CurCmd(p).type = "backup"
    /\ WellFormed(CurCmd(p))
    /\ inv[p].gen \in Timestamps
    /\ gens[DestOf(CurCmd(p))][inv[p].gen] = NoDir

\* C20: in Restore a backup step whose destBase/<generation> directory is
\* missing is skipped: no copy is launched, no error is noted and the loop
\* goes on to the next step; a Restore in which a copy failed returns the
\* partial-failure error after the loop has passed every step.
C20_MissingGenerationSkipped ==
    [][\A p \in Handlers :
          /\ (AtMissingGeneration(p) /\ inv'[p] # inv[p]) =>
                /\ inv'[p].pc = "r_loop"
                /\ inv'[p].idx = inv[p].idx + 1
                /\ inv'[p].hasError = inv[p].hasError
                /\ inv'[p].attempted = inv[p].attempted
          /\ (inv[p].op = "restore" /\ inv[p].pc # "done" /\ inv'[p].pc = "done"
              /\ inv[p].failed # {}) =>
                /\ inv'[p].result = "partial"
                /\ inv[p].idx > Len(server.backup)]_vars

\* a step of the Restore invocation handler p is in, its call included
RestoreStepped(p) ==
    \/ RestoreCalled(p)
    \/ /\ inv[p].op = "restore"
       /\ inv[p].pc # "done"
       /\ inv'[p] # inv[p]

\* C21: no step of a Restore creates, modifies or deletes anything under a
\* backup destination base: the generation directories and the `latest`
\* pointers are what they were before the step.
C21_RestoreLeavesGenerations ==
    [][\A p \in Handlers : RestoreStepped(p) => gens' = gens /\ latest' = latest]_vars

\* a Restore returned nil after a copy from a generation that exists
C21_Witness ==
    \E p \in Handlers :
        /\ inv[p].op = "restore"
        /\ inv[p].pc = "done"
        /\ inv[p].result = "ok"
        /\ inv[p].attempted = {3}
        /\ latest["/bk1"] \in Timestamps
        /\ gens["/bk1"][latest["/bk1"]] \in Contents
        /\ srcData = gens["/bk1"][latest["/bk1"]]

\* C26: for a server whose configuration has no image, Start issues no
\* engine call at all, so no create call, and leaves the engine as it was;
\* no other operation of the manager has a create call.
C26_NoImageNeverCreated ==
    (lastStart.ran /\ ~server.image) =>
        /\ ~Called("create")
        /\ lastStart.calls = <<>>
        /\ lastStart.postId = lastStart.preId
        /\ lastStart.post = lastStart.pre

\* Start ran on a configured server without an image and called nothing
C26_Witness ==
    /\ lastStart.ran
    /\ server.ok
    /\ ~server.image
    /\ lastStart.calls = <<>>
    /\ lastStart.err = None

\* C27: Start, Backup and Restore invoked with a server name the
\* configuration does not have return the not-found error and change
\* neither the engine nor the files.
C27_UnknownServerNotFound ==
    /\ (lastStart.ran /\ ~server.ok) =>
          /\ lastStart.err = "notfound"
          /\ lastStart.calls = <<>>
    /\ \A p \in Handlers :
          (inv[p].pc = "done" /\ ~server.ok) =>
              /\ inv[p].result = "notfound"
              /\ inv[p].attempted = {}
              /\ inv[p].sent = {}

\* Start found no container: the inspect call answered not found
StartOnAbsent ==
    /\ StartOnManaged
    /\ lastStart.pre = "absent"
    /\ lastStart.err # "inspect"

\* C28: Start on an absent container issues one create call and, only if
\* the create succeeded, one start call after it; a failed create or a
\* failed start is the error returned, and no call is issued twice.
C28_CreateThenStartOnce ==
    StartOnAbsent =>
        \/ /\ lastStart.calls = <<"inspect", "create">>
           /\ lastStart.err = "create"
           /\ lastStart.postId = lastStart.preId
           /\ lastStart.post = "absent"
        \/ /\ lastStart.calls = <<"inspect", "create", "start">>
           /\ lastStart.postId = lastStart.preId + 1
           /\ \/ lastStart.err = None /\ lastStart.post = "running"
              \/ lastStart.err = "start" /\ lastStart.post = "created"

\* a Start created the container and the start call failed
C28_Witness ==
    /\ StartOnAbsent
    /\ lastStart.calls = <<"inspect", "create", "start">>
    /\ lastStart.err = "start"
    /\ lastStart.post = "created"

\* the request opened a file of a server for reading, successfully
ReadSucceeded ==
    /\ req.pc = "done"
    /\ \/ req.front = "sftp" /\ req.method = "Get"
       \/ req.front = "webdav" /\ req.method = "OpenFileRead"
    /\ req.err = None
    /\ Len(req.maps) = 1
    /\ req.maps[1].err = None

\* C25: a file read through SFTP or WebDAV succeeds only if the acting
\* user holds file.read for the server of the path.
C25_ReadNeedsFileRead ==
    ReadSucceeded =>
        HasPermission(UserOf(access, req.user), req.maps[1].server, PermFileRead)

\* the session's user may read server s
MayRead(s) ==
    /\ req.user \in DOMAIN access.Users
    /\ HasPermission(access.Users[req.user], s, PermContainerRead)

\* C24: MapPath("") returns the root sentinel; MapPath of one segment
\* naming a configured server the user can read returns the server-root
\* sentinel; MapPath("s/data/f"), data being a destination of the live
\* mounts of s, returns <source of that mount>/f; a second segment that is
\* no live mount destination yields the not-found error.
C24_MapPathResults ==
    \A i \in DOMAIN req.maps :
       LET m == req.maps[i]
           segs == m.path.segs
           ok == /\ Len(segs) >= 1
                 /\ \A j \in DOMAIN segs : segs[j] \notin {"", ".", ".."}
                 /\ MayRead(segs[1])
                 /\ segs[1] \in access.Servers
       IN  /\ m.path = Rel(<<>>) => m.err = ErrVfsRoot
           /\ (ok /\ Len(segs) = 1) => m.err = ErrVfsContainerRoot
           /\ (ok /\ Len(segs) = 3 /\ segs[2] \in Mounts(segs[1]) /\ m.err = None) =>
                 HostPath(m, segs[2]) = MountSource(segs[1], segs[2]) \o <<segs[3]>>
           /\ (ok /\ Len(segs) = 3 /\ segs[2] \in Mounts(segs[1]) /\ m.inspected) =>
                 m.err \in {None, ErrNotExist}
           /\ (ok /\ Len(segs) >= 2 /\ segs[2] \notin Mounts(segs[1])) =>
                 m.err = ErrNotExist

\* the k-th event of a Stop over the steps given: every step begins and
\* ends in list order, then the engine stop call
StopOrder(steps, k, ok) ==
    IF k <= 2 * Len(steps)
    THEN StepEvent((k + 1) \div 2, IF k % 2 = 1 THEN "begin" ELSE "end")
    ELSE CallEvent("stop", 0, ok)

\* C29: within a Stop invocation the stop steps run in list order, each
\* ending before the next begins, and the engine stop call is issued once,
\* after the last step has ended.
C29_StopStepsInOrderThenEngineStop ==
    run.op = "stop" =>
        /\ Len(run.events) <= 2 * Len(run.steps) + 1
        /\ \A k \in DOMAIN run.events :
              run.events[k] = StopOrder(run.steps, k, run.events[k].ok)
        /\ run.pc = "done" => Len(run.events) = 2 * Len(run.steps) + 1

\* a Stop of a server with three stop steps returned after the engine call
C29_Witness ==
    /\ run.op = "stop"
    /\ run.pc = "done"
    /\ run.known
    /\ Len(run.steps) = 3
    /\ Len(run.events) = 7
    /\ run.events[7].what = "stop"
    /\ run.err = None

\* C30: Kill first issues the stop call with the 30-second timeout; the
\* kill signal is issued only after that stop call failed, and never when
\* it succeeded.
C30_KillOnlyAfterFailedStop ==
    run.op = "kill" =>
        /\ Len(run.events) \in {1, 2}
        /\ run.events[1] = CallEvent("stop", 30, run.events[1].ok)
        /\ Len(run.events) = 2 =>
              /\ ~run.events[1].ok
              /\ run.events[2].what = "kill"
        /\ (run.pc = "done" /\ run.events[1].ok) =>
              /\ Len(run.events) = 1
              /\ run.err = None
        /\ (run.pc = "done" /\ ~run.events[1].ok) => Len(run.events) = 2

\* a Kill whose graceful stop failed sent the kill signal and succeeded
C30_Witness ==
    /\ run.op = "kill"
    /\ run.pc = "done"
    /\ Len(run.events) = 2
    /\ ~run.events[1].ok
    /\ run.events[2] = CallEvent("kill", 0, TRUE)
    /\ run.err = None

\* a step in which Remove is invoked
RemoveCalled == run'.op = "remove" /\ run'.n = run.n + 1

\* C22: Remove on a running container returns the conflict error and
\* deletes nothing; on an absent container it returns success without an
\* engine delete call; otherwise it issues the delete call, after which,
\* the call having succeeded, the container is absent.
C22_RemoveByState ==
    [][RemoveCalled =>
          /\ run'.pc = "done"
          /\ cstate = "running" =>
                /\ run'.err = "conflict"
                /\ run'.events = <<>>
                /\ cstate' = cstate
          /\ cstate = "absent" =>
                /\ run'.err = None
                /\ run'.events = <<>>
                /\ cstate' = cstate
          /\ cstate = "created" =>
                /\ Len(run'.events) = 1
                /\ run'.events[1].what = "remove"
                /\ run'.events[1].ok => (run'.err = None /\ cstate' = "absent")
                /\ ~run'.events[1].ok => (run'.err = "remove" /\ cstate' = cstate)]_vars

\* a Remove deleted a stopped container
C22_Witness ==
    /\ run.op = "remove"
    /\ run.pc = "done"
    /\ run.pre = "created"
    /\ run.events = <<CallEvent("remove", 0, TRUE)>>
    /\ run.err = None
    /\ cstate = "absent"

\* the destination bases of the server's backup-typed steps
ListedBases ==
    {DestOf(server.backup[i]) : i \in {j \in DOMAIN server.backup :
        server.backup[j].type = "backup" /\ WellFormed(server.backup[j])}}

\* C23: ListBackupGenerations returns the generation names found under the
\* destination bases of all backup-typed steps, each once, in strictly
\* descending order, and never `latest`.
C23_GenerationsDescendingOnce ==
    (run.op = "list" /\ run.pc = "done") =>
        /\ \A i, j \in DOMAIN run.result : i < j => run.result[i] > run.result[j]
        /\ {run.result[i] : i \in DOMAIN run.result} =
              {t \in Timestamps : \E d \in ListedBases : gens[d][t] # NoDir}
        /\ \A i \in DOMAIN run.result : run.result[i] # LatestEntry

\* two steps whose destination bases hold a generation of the same name,
\* one of them another generation too, and a `latest` pointer
C23_Witness ==
    /\ run.op = "list" /\ run.pc = "done"
    /\ server.backup = BackupTwoDest
    /\ gens["/bk1"][1] # NoDir /\ gens["/bk2"][1] # NoDir
    /\ gens["/bk2"][2] # NoDir
    /\ latest["/bk2"] = 2
    /\ run.result = <<2, 1>>

\* the modification time of the file that holds version v: every save
\* advances the version and the modification time by one, from 1 and 1
ModTimeOf(v) == v

\* a step in which goroutine p's Reload returns
ReloadReturns(p) ==
    /\ gr[p].pc \in {"rl_open", "rl_decode", "rl_stat"}
    /\ gr'[p].pc = AfterReload(gr[p])

\* C31: when a Reload returns, either the snapshot and LastLoaded are both
\* those of the file it parsed, or it has changed neither.
C31_SnapshotAndModTimeTogether ==
    [][\A p \in Readers :
          ReloadReturns(p) =>
             IF gr[p].pc = "rl_stat"
             THEN /\ Config' = [Users |-> gr[p].newCfg, Servers |-> gr[p].newCfg]
                  /\ LastLoaded' = ModTimeOf(gr[p].newCfg)
             ELSE Config' = Config /\ LastLoaded' = LastLoaded
      ]_vars

\* a step in which the Reload that goroutine p's Get called parses the file
GetParses(p) ==
    /\ gr[p].pc = "rl_decode"
    /\ gr[p].inGet
    /\ gr'[p].pc # "rl_decode"

\* C32: a Get parses the file only while the file's modification time is
\* newer than LastLoaded: once a change is loaded and the file stays as it
\* is, no Get parses it again, whichever other Gets run at the same time.
C32_GetParsesOnlyNewerFile ==
    [][\A p \in Readers : GetParses(p) => file.mtime > LastLoaded]_vars

\* a step of handler p that ends a copy whose process was running when the
\* context became done
CancelledCopyEnds(p) ==
    /\ inv[p].pc \in {"b_rsync", "r_rsync"}
    /\ inv[p].proc = "running"
    /\ inv[p].ctxDone
    /\ inv'[p].pc # inv[p].pc

\* C33: a copy process that is running when the context of Backup or Restore
\* becomes done is killed and its step counted as failed, the invocation
\* returns the partial-failure error, and no process is left running once
\* the step is over.
C33_CancelKillsCopy ==
    [][\A p \in Handlers :
          /\ CancelledCopyEnds(p) =>
                /\ inv'[p].proc = "killed"
                /\ inv'[p].hasError
                /\ inv[p].idx \in inv'[p].failed
          /\ inv'[p].proc = "running" => inv'[p].pc \in {"b_rsync", "r_rsync"}
          /\ (inv'[p].pc = "done" /\ inv'[p].failed # {}) => inv'[p].result = "partial"
      ]_vars

\* a Restore has returned the partial-failure error after its copy was killed
C33_Witness ==
    /\ inv["h1"].pc = "done"
    /\ inv["h1"].op = "restore"
    /\ inv["h1"].ctxDone
    /\ inv["h1"].proc = "killed"
    /\ inv["h1"].result = "partial"

\* handler p's restore copy is writing to the source path
RestoreWrites(p) == inv[p].pc = "r_rsync" /\ inv[p].proc = "running"

\* C34: while a restore copy is writing to the source path the server's
\* container is not running, whenever a concurrent Start takes its steps.
C34_NoRestoreCopyWhileRunning ==
    \A p \in Handlers : RestoreWrites(p) => cstate # "running"

\* the channel map and the sessions are those of configuration version v
InLine(v) ==
    /\ bots.ChannelToServer = newChannelToServer(ServersOf(v))
    /\ {t \in BotTokens : bots.Sessions[t] # "absent"} = activeTokens(ServersOf(v))

\* C35: once a version of the configuration is loaded, a later SyncBots brings
\* the channel map and the sessions in line with it, unless a newer version
\* is loaded first.
C35_SyncBotsFollowsConfig ==
    \A v \in 1 .. MaxVersion :
        (Config = [Users |-> v, Servers |-> v])
            ~> (InLine(v) \/ Config.Servers # v)

\* C38: a token whose session failed to open (nil in Sessions) gets a session
\* on a later tick once Discord accepts connections, or is dropped from the
\* configuration; no further save of the file is needed for that.
C38_FailedSessionRetried ==
    \A t \in BotTokens :
        (bots.Sessions[t] = "nil" /\ bots.up) ~> (bots.Sessions[t] # "nil")

\* no backup copy is being written
NoCopyRunning == \A p \in Handlers : inv[p].pc # "b_rsync"

\* C36: while no copy is being written, the directory `latest` points to and
\* every directory whose name ListBackupGenerations returns hold a completed
\* copy, never what a failed or cancelled copy left behind.
C36_OnlyCompletedGenerationsOffered ==
    NoCopyRunning =>
        /\ \A d \in DestBases :
              latest[d] # NoLatest => gens[d][latest[d]] \notin {NoDir, Partial}
        /\ \A i \in DOMAIN ListBackupGenerations :
              \A d \in ListedBases : gens[d][ListBackupGenerations[i]] # Partial

\* the terminals whose handler is between taking the lock of id and
\* returning
Holders(id) ==
    {t \in Terminals : attach.id[t] = id
                       /\ attach.pc[t] \in {"locked", "attached", "unlocking"}}

\* C39: the attach lock of a container is set only while a handler that took
\* it has not yet returned, whichever way that handler ends; so with no such
\* handler left the next attach request finds the container unlocked.
C39_AttachLockReleasedOnReturn ==
    \A id \in ServerNames : Locked(id) => Holders(id) # {}

\* a handler has held the lock of mc1 and returned, and the attach request
\* of another terminal for mc1 has then been accepted
C39_Witness ==
    /\ attach.pc["t1"] = "idle"
    /\ attach.id["t1"] = "mc1"
    /\ attach.pc["t2"] = "attached"
    /\ attach.id["t2"] = "mc1"
    /\ attach.AttachLocks = {"mc1"}

\* the listing of server-root s is shown to the user of the request
ServerRootListed(s) ==
    MapPath(access, req.user, Abs(<<s>>), TRUE).err = ErrVfsContainerRoot

\* C40: for every entry e in the listing of a server-root s, MapPath on
\* s/e succeeds and returns the host source of the mount whose destination
\* is e.
C40_ListedEntriesResolve ==
    \A s \in ServerNames : \A e \in Filelist(s, TRUE) :
        (req.pc = "done" /\ req.front = "vfs" /\ req.path = Abs(<<s>> \o e)
            /\ ServerRootListed(s)) =>
           LET m == MapPath(access, req.user, req.path, TRUE)
           IN  /\ m.err = None
               /\ HostPath(m, e[1]) = Source(s, e)

\* tailContainerLogs goroutine i has not returned
Tailing(i) == tails[i].pc # "exited"

\* C37: no two tailContainerLogs goroutines of one server are running at the
\* same time.
C37_OneForwarderPerServer ==
    \A i, j \in DOMAIN tails :
        (i # j /\ tails[i].server = tails[j].server) => ~(Tailing(i) /\ Tailing(j))

====
